---- MODULE Spec2Model ----
(***************************************************************************)
(* State-machine model of the microclaw device runtime                     *)
(* (apps/microclaw-device/src/runtime.rs) and of the protocol helpers it   *)
(* calls (crates/microclaw-protocol/src/lib.rs).                           *)
(*                                                                         *)
(* Every method of RuntimeState is a pure operator from a RuntimeState     *)
(* record (and the method's arguments) to the RuntimeState record after    *)
(* the call; methods that return a value yield [state, ret].  The actions  *)
(* at the end apply one method call to the variable `state`.               *)
(*                                                                         *)
(* Encodings: Option<T> is a sequence, None = <<>> and Some(v) = <<v>>;    *)
(* a message_id is a natural number n standing for the string "m-<n>";     *)
(* format!("corr-{seq}") is the pair <<"corr", seq>>; a JSON payload is    *)
(* [json |-> "null"] or [json |-> "object", fields |-> <record>].          *)
(***************************************************************************)
EXTENDS Integers, Sequences, FiniteSets, TLC

\* state:    the device's RuntimeState
\* clock:    the wall clock read by now_ms()
\* ret:      operation and return value of the last call
\* accepted: history, message_id -> the values of `clears` at which a frame
\*           carrying it was accepted in this session
\* clears:   history, number of times the seen-set was cleared in this session
\* host:     the host's Host (idle in the specifications of the device)
\* queue:    a work queue used on its own (idle in the other specifications)
\* hist:     history of the queue and host operations
VARIABLES state, clock, ret, accepted, clears, host, queue, hist

hostvars == <<host, queue, hist>>
vars == <<state, clock, ret, accepted, clears, host, queue, hist>>

(***************************************************************************)
(* Bounds of the model.                                                    *)
(***************************************************************************)
\* largest envelope.seq of an inbound frame in the short sessions
MaxSeq == 2
\* number of distinct inbound message ids in the short sessions
MaxIds == 2
\* largest value of the wall clock and of every time argument
MaxNow == 1
\* largest outbound_seq the device is driven to
MaxOutbound == 1
\* cap on the number of boot failures recorded before a restart
MaxBootFailures == 4
\* frames accepted in a long session beyond the 514th
ExtraLongFrames == 2
\* no boot failure is recorded once the diagnostics ring holds this many entries
MaxDiagnostics == 6
\* cap on safety_fail_count raised by frames from unauthorized sources
MaxSafetyFails == 1

\* number of items put into a queue used on its own
MaxQueueItems == 3
\* frames handed to the host's transport in one run
MaxInjected == 2
\* steps the host takes in one run
MaxHostSteps == 2
\* longest run of consecutive backend failures
MaxBackendFailures == 13
\* backend successes in one run of the breaker
MaxSuccesses == 1
\* one-millisecond waits while the circuit is open
MaxShortWaits == 1
\* touch events pushed beyond the capacity of the touch pipeline
ExtraTouchEvents == 2
\* largest configured depth of a device transport queue
MaxBusDepth == 2
\* frames that arrive at, and frames that are sent on, a device transport
MaxBusFrames == 4
\* frames, or floods of frames, that arrive at the device loop
MaxLoopFrames == 2
\* touch events of the device loop
MaxLoopTouches == 1
\* times the link of the device drops
MaxLinkDrops == 1
\* latest time of a step of the device loop
MaxLoopNow == 2
\* failed reconnect attempts in a row
MaxReconnectFailures == 7
\* largest outbound_seq of a session of the ledger
MaxLedgerSeq == 4
\* number of replies the host sends in a session of the ledger
MaxLedgerReplies == 2
\* latest time of a step of the polling host
MaxPollNow == 5
\* latest time of a step of the host whose link drops
MaxRecoverNow == 1500
\* times the link of the host drops
MaxHostLinkDrops == 2
MaxIsrOverflow == 2
\* touches between two steps of the idle device, and its steps
MaxIdleTouches == 1
MaxIdleSteps == 3

(***************************************************************************)
(* Program constants.                                                      *)
(***************************************************************************)
DEFAULT_SAFETY_RETRIES == 5
DEFAULT_BOOT_RETRY_LIMIT == 3
SEEN_IDS_LIMIT == 512
DIAGNOSTICS_LIMIT == 16
DEFAULT_LOOPBACK_DEPTH == 128
BACKEND_CIRCUIT_CAP_MS == 30000

None == <<>>
Some(v) == <<v>>
is_some(o) == o # <<>>
unwrap(o) == o[1]
unwrap_or(o, d) == IF o = <<>> THEN d ELSE o[1]

saturating_sub(a, b) == IF a >= b THEN a - b ELSE 0
\* u32/u64 saturating_add: the ceilings 2^32-1 and 2^64-1 lie far beyond every
\* counter value the bounded runs produce, so the sum never saturates here
saturating_add(a, b) == a + b

Times == 0..MaxNow

(***************************************************************************)
(* RuntimeMode                                                             *)
(***************************************************************************)
Booting == [tag |-> "Booting", reason |-> ""]
Connected == [tag |-> "Connected", reason |-> ""]
Offline == [tag |-> "Offline", reason |-> ""]
Error(reason) == [tag |-> "Error", reason |-> reason]
SafeMode(reason) == [tag |-> "SafeMode", reason |-> reason]

(***************************************************************************)
(* RuntimeAction                                                           *)
(***************************************************************************)
ActionNone == [type |-> "None", message |-> "", corr_id |-> None]
EmitAck(corr_id, status) == [type |-> "EmitAck", message |-> status, corr_id |-> Some(corr_id)]
RaiseUiState(message) == [type |-> "RaiseUiState", message |-> message, corr_id |-> None]

(***************************************************************************)
(* DeviceStatus                                                            *)
(***************************************************************************)
DeviceStatus_default ==
    [wifi_ok |-> FALSE, host_reachable |-> FALSE, host_latency_ms |-> None,
     rssi_dbm |-> None, mode |-> None, scene |-> None,
     battery_percent |-> None, queue_depth |-> None, ota_state |-> None]

JsonNull == [json |-> "null"]
JsonObject(fields) == [json |-> "object", fields |-> fields]
has_field(payload, f) == payload.json = "object" /\ f \in DOMAIN payload.fields

\* serde: a missing Option field is None, a present one is Some(value)
opt_field(payload, f) == IF f \in DOMAIN payload.fields THEN Some(payload.fields[f]) ELSE None

\* serde_json::from_value::<DeviceStatus>: every field has #[serde(default)]
parse_device_status(payload) ==
    IF payload.json # "object" THEN None
    ELSE Some([wifi_ok |-> IF "wifi_ok" \in DOMAIN payload.fields
                            THEN payload.fields.wifi_ok ELSE FALSE,
               host_reachable |-> IF "host_reachable" \in DOMAIN payload.fields
                            THEN payload.fields.host_reachable ELSE FALSE,
               host_latency_ms |-> opt_field(payload, "host_latency_ms"),
               rssi_dbm |-> opt_field(payload, "rssi_dbm"),
               mode |-> opt_field(payload, "mode"),
               scene |-> opt_field(payload, "scene"),
               battery_percent |-> opt_field(payload, "battery_percent"),
               queue_depth |-> opt_field(payload, "queue_depth"),
               ota_state |-> opt_field(payload, "ota_state")])

DeviceActions == {"reconnect", "wifi_reconnect", "status_get", "ota_start",
                  "open_conversation", "mic_toggle", "mute", "end_session",
                  "sync_now", "unpair", "diagnostics_snapshot", "restart", "retry"}

\* #[serde(other)] Unknown
parse_device_action(s) == IF s \in DeviceActions THEN s ELSE "unknown"

\* serde_json::from_value::<DeviceCommand>: action is required, args defaults to Null
parse_command_payload(payload) ==
    IF payload.json = "object" /\ "action" \in DOMAIN payload.fields
    THEN Some([action |-> parse_device_action(payload.fields.action),
               args |-> IF "args" \in DOMAIN payload.fields
                        THEN payload.fields.args ELSE JsonNull])
    ELSE None

as_device_command(msg) ==
    IF msg.kind \notin {"Command", "HostCommand"} THEN None
    ELSE parse_command_payload(msg.payload)

as_status_snapshot(msg) ==
    IF msg.kind # "StatusSnapshot" /\ msg.kind # "StatusDelta" THEN None
    ELSE parse_device_status(msg.payload)

\* variant: the TTL comparison is >= instead of >
is_expired_at_ttl(msg, now_ms) ==
    IF is_some(msg.issued_at) /\ is_some(msg.ttl_ms)
    THEN saturating_sub(now_ms, unwrap(msg.issued_at)) >= unwrap(msg.ttl_ms)
    ELSE FALSE

is_expired(msg, now_ms) ==
    IF is_some(msg.issued_at) /\ is_some(msg.ttl_ms)
    THEN saturating_sub(now_ms, unwrap(msg.issued_at)) > unwrap(msg.ttl_ms)
    ELSE FALSE

(***************************************************************************)
(* DeviceStorage (InMemoryStorage): typed key/value maps.                  *)
(***************************************************************************)
BOOT_FAILURE_COUNT == "boot_failure_count"
DEVICE_ID == "device_id"

InMemoryStorage_new == [u32s |-> <<>>, strings |-> <<>>]
get_u32(storage, key) == IF key \in DOMAIN storage.u32s THEN Some(storage.u32s[key]) ELSE None
set_u32(storage, key, value) == [storage EXCEPT !.u32s = (key :> value) @@ storage.u32s]
get_string(storage, key) == IF key \in DOMAIN storage.strings THEN Some(storage.strings[key]) ELSE None

(***************************************************************************)
(* RuntimeState: constructors                                              *)
(***************************************************************************)
RuntimeState_new ==
    [mode |-> Booting,
     last_seq |-> 0,
     outbound_seq |-> 0,
     device_id |-> "device",
     seen_message_ids |-> <<>>,
     in_flight |-> <<>>,
     diagnostics |-> <<>>,
     last_status |-> DeviceStatus_default,
     offline_since_ms |-> None,
     last_heartbeat_ms |-> None,
     host_allowlist |-> <<>>,
     safety_fail_count |-> 0,
     safety_fail_limit |-> DEFAULT_SAFETY_RETRIES,
     ota_in_progress |-> FALSE,
     ota_target_version |-> None,
     ota_error_reason |-> None,
     boot_failure_count |-> 0,
     boot_retry_limit |-> DEFAULT_BOOT_RETRY_LIMIT,
     scene_cache |-> "Boot",
     storage |-> None,
     pending_reconciliation |-> FALSE]

\* variant: the persisted count must exceed the limit
with_storage_strict(storage) ==
    LET boot_failure_count == unwrap_or(get_u32(storage, BOOT_FAILURE_COUNT), 0)
        device_id == unwrap_or(get_string(storage, DEVICE_ID), "device")
        st == [RuntimeState_new EXCEPT !.boot_failure_count = boot_failure_count,
                                       !.device_id = device_id,
                                       !.storage = Some(storage)]
    IN  IF boot_failure_count > st.boot_retry_limit
        THEN [st EXCEPT !.mode = SafeMode("persisted_boot_failures_exceeded")]
        ELSE st

with_storage(storage) ==
    LET boot_failure_count == unwrap_or(get_u32(storage, BOOT_FAILURE_COUNT), 0)
        device_id == unwrap_or(get_string(storage, DEVICE_ID), "device")
        st == [RuntimeState_new EXCEPT !.boot_failure_count = boot_failure_count,
                                       !.device_id = device_id,
                                       !.storage = Some(storage)]
    IN  IF boot_failure_count >= st.boot_retry_limit
        THEN [st EXCEPT !.mode = SafeMode("persisted_boot_failures_exceeded")]
        ELSE st

with_host_allowlist(hosts) == [RuntimeState_new EXCEPT !.host_allowlist = hosts]

(***************************************************************************)
(* RuntimeState: private helpers                                           *)
(***************************************************************************)
\* variant: the wildcard entry is compared like any other entry
is_host_allowed_no_wildcard(s, source) ==
    IF s.host_allowlist = <<>> THEN TRUE
    ELSE \E i \in DOMAIN s.host_allowlist : s.host_allowlist[i] = source

is_host_allowed(s, source) ==
    IF s.host_allowlist = <<>> THEN TRUE
    ELSE \E i \in DOMAIN s.host_allowlist :
            s.host_allowlist[i] = source \/ s.host_allowlist[i] = "*"

RECURSIVE trim_diagnostics(_)
trim_diagnostics(d) == IF Len(d) > DIAGNOSTICS_LIMIT THEN trim_diagnostics(Tail(d)) ELSE d

push_diagnostic(s, entry) ==
    [s EXCEPT !.diagnostics = trim_diagnostics(Append(s.diagnostics, entry))]

\* variant: the count is kept in memory only
persist_boot_failure_count_skipped(s) == s

persist_boot_failure_count(s) ==
    IF is_some(s.storage)
    THEN [s EXCEPT !.storage = Some(set_u32(unwrap(s.storage), BOOT_FAILURE_COUNT,
                                            s.boot_failure_count))]
    ELSE s

clear_boot_failure_count(s) ==
    persist_boot_failure_count([s EXCEPT !.boot_failure_count = 0])

mark_boot_success(s) ==
    LET s1 == clear_boot_failure_count(s)
    IN  [s1 EXCEPT !.mode = Connected,
                   !.last_status = [s1.last_status EXCEPT !.mode = Some("connected")]]

mark_offline_with_reason(s, reason, now_ms) ==
    IF s.mode.tag # "Offline"
    THEN push_diagnostic([s EXCEPT !.mode = Offline, !.offline_since_ms = Some(now_ms)], reason)
    ELSE s

mark_error_with_reason(s, reason) == [s EXCEPT !.mode = Error(reason)]

note_heartbeat(s, issued_at, now_ms) ==
    [s EXCEPT !.last_heartbeat_ms = Some(unwrap_or(issued_at, now_ms))]

\* variant: a frame repeating last_seq passes the sequence check
is_duplicate_or_stale_lt(s, seq, message_id) ==
    IF seq < s.last_seq THEN TRUE
    ELSE message_id \in DOMAIN s.seen_message_ids

is_duplicate_or_stale(s, seq, message_id) ==
    IF seq <= s.last_seq THEN TRUE
    ELSE message_id \in DOMAIN s.seen_message_ids

\* variant: the id is not recorded
track_message_id_forgets(s, seq, message_id) == s

\* variant: the overflow clear runs after the insert
track_message_id_clear_last(s, seq, message_id) ==
    LET seen == (message_id :> seq) @@ s.seen_message_ids
    IN  [s EXCEPT !.seen_message_ids =
            IF Cardinality(DOMAIN seen) > SEEN_IDS_LIMIT THEN <<>> ELSE seen]

track_message_id(s, seq, message_id) ==
    LET seen == IF Cardinality(DOMAIN s.seen_message_ids) > SEEN_IDS_LIMIT
                THEN <<>> ELSE s.seen_message_ids
    IN  [s EXCEPT !.seen_message_ids = (message_id :> seq) @@ seen]

apply_status_snapshot(s, status, now_ms) ==
    LET s1 == [s EXCEPT !.last_status = status]
    IN  IF ~status.wifi_ok
        THEN mark_offline_with_reason(s1, "status_wifi_not_ok", now_ms)
        ELSE IF is_some(status.mode)
             THEN CASE unwrap(status.mode) = "boot" -> [s1 EXCEPT !.mode = Booting]
                    [] unwrap(status.mode) \in {"connected", "paired", "ready"} ->
                            [s1 EXCEPT !.mode = Connected]
                    [] unwrap(status.mode) = "offline" -> [s1 EXCEPT !.mode = Offline]
                    [] unwrap(status.mode) = "safe_mode" ->
                            [s1 EXCEPT !.mode = SafeMode("host_reported_safe_mode")]
                    [] unwrap(status.mode) = "error" ->
                            [s1 EXCEPT !.mode = Error("host_reported_error")]
                    [] OTHER -> s1
             ELSE s1

(***************************************************************************)
(* RuntimeState::apply_transport_message                                   *)
(***************************************************************************)
\* variant: the acknowledgement empties the ledger
remove_in_flight_all(s, corr_id) ==
    [s EXCEPT !.in_flight = IF corr_id \in DOMAIN s.in_flight THEN <<>> ELSE @]

remove_in_flight(s, corr_id) ==
    [s EXCEPT !.in_flight = [k \in (DOMAIN s.in_flight) \ {corr_id} |-> s.in_flight[k]]]

\* the match on msg.kind, after the frame was accepted
dispatch_kind(s, msg, now_ms) ==
    CASE msg.kind = "HelloAck" ->
            [state |-> [mark_boot_success(s) EXCEPT !.offline_since_ms = None,
                                                    !.safety_fail_count = 0],
             ret |-> RaiseUiState("connected")]
      [] msg.kind \in {"StatusDelta", "StatusSnapshot"} ->
            LET status == as_status_snapshot(msg)
                s1 == IF is_some(status)
                      THEN apply_status_snapshot(s, unwrap(status), now_ms) ELSE s
                s2 == IF msg.kind = "StatusSnapshot"
                      THEN [s1 EXCEPT !.pending_reconciliation = FALSE] ELSE s1
            IN  [state |-> [s2 EXCEPT !.offline_since_ms = None],
                 ret |-> RaiseUiState("status_updated")]
      [] msg.kind \in {"Command", "HostCommand"} ->
            LET command == as_device_command(msg)
            IN  IF is_some(command)
                THEN CASE unwrap(command).action = "reconnect" ->
                            [state |-> [s EXCEPT !.mode = Offline],
                             ret |-> RaiseUiState("command_reconnect")]
                       [] unwrap(command).action = "retry" ->
                            [state |-> [s EXCEPT !.mode = Booting],
                             ret |-> RaiseUiState("command_retry")]
                       [] unwrap(command).action = "restart" ->
                            [state |-> [s EXCEPT !.mode = Booting],
                             ret |-> RaiseUiState("command_restart")]
                       [] unwrap(command).action = "ota_start" ->
                            [state |-> [s EXCEPT
                                !.ota_target_version =
                                    IF has_field(unwrap(command).args, "version")
                                    THEN Some(unwrap(command).args.fields.version)
                                    ELSE None,
                                !.ota_error_reason = None,
                                !.ota_in_progress = TRUE],
                             ret |-> RaiseUiState("command_ota_start")]
                       [] unwrap(command).action = "diagnostics_snapshot" ->
                            [state |-> s, ret |-> RaiseUiState("command_diagnostics")]
                       [] OTHER ->
                            [state |-> s, ret |-> RaiseUiState("command_received")]
                ELSE [state |-> s, ret |-> RaiseUiState("command_parse_error")]
      [] msg.kind = "CommandAck" ->
            IF is_some(msg.corr_id)
            THEN [state |-> remove_in_flight(s, unwrap(msg.corr_id)),
                  ret |-> EmitAck(unwrap(msg.corr_id), "command_ack")]
            ELSE [state |-> s, ret |-> ActionNone]
      [] msg.kind = "CommandResult" ->
            LET s1 == IF is_some(msg.corr_id)
                      THEN remove_in_flight(s, unwrap(msg.corr_id)) ELSE s
                command == parse_command_payload(msg.payload)
                ota == /\ is_some(command)
                       /\ has_field(msg.payload, "result")
                       /\ unwrap(command).action = "ota_start"
            IN  IF ota /\ msg.payload.fields.result \in {"ok", "success"}
                THEN [state |-> s1, ret |-> RaiseUiState("ota_result_ok")]
                ELSE IF ota /\ msg.payload.fields.result \in {"error", "failed"}
                THEN [state |-> [s1 EXCEPT
                        !.ota_error_reason =
                            Some(IF has_field(msg.payload, "reason")
                                 THEN msg.payload.fields.reason ELSE "ota_failed"),
                        !.ota_in_progress = FALSE],
                      ret |-> RaiseUiState("ota_result_failed")]
                ELSE [state |-> s1, ret |-> RaiseUiState("command_result")]
      [] msg.kind = "Error" ->
            [state |-> s, ret |-> RaiseUiState("host_error")]
      [] msg.kind = "Heartbeat" ->
            [state |-> [s EXCEPT !.mode = Connected], ret |-> ActionNone]
      [] OTHER -> [state |-> s, ret |-> ActionNone]

\* variant: the TTL is checked before the source
apply_transport_message_ttl_first(s, msg, now_ms) ==
    IF is_expired(msg, now_ms)
    THEN [state |-> s, ret |-> RaiseUiState("message_expired_ttl")]
    ELSE IF ~is_host_allowed(s, msg.source)
    THEN [state |-> [s EXCEPT !.safety_fail_count = saturating_add(s.safety_fail_count, 1)],
          ret |-> RaiseUiState("command_denied_unauthorized_source")]
    ELSE IF is_duplicate_or_stale(s, msg.seq, msg.message_id)
    THEN [state |-> s, ret |-> RaiseUiState("replay_or_duplicate_rejected")]
    ELSE LET s1 == [s EXCEPT !.last_seq = msg.seq]
             s2 == track_message_id(s1, msg.seq, msg.message_id)
             s3 == note_heartbeat(s2, msg.issued_at, now_ms)
         IN  dispatch_kind(s3, msg, now_ms)

apply_transport_message(s, msg, now_ms) ==
    IF ~is_host_allowed(s, msg.source)
    THEN [state |-> [s EXCEPT !.safety_fail_count = saturating_add(s.safety_fail_count, 1)],
          ret |-> RaiseUiState("command_denied_unauthorized_source")]
    ELSE IF is_expired(msg, now_ms)
    THEN [state |-> s, ret |-> RaiseUiState("message_expired_ttl")]
    ELSE IF is_duplicate_or_stale(s, msg.seq, msg.message_id)
    THEN [state |-> s, ret |-> RaiseUiState("replay_or_duplicate_rejected")]
    ELSE LET s1 == [s EXCEPT !.last_seq = msg.seq]
             s2 == track_message_id(s1, msg.seq, msg.message_id)
             s3 == note_heartbeat(s2, msg.issued_at, now_ms)
         IN  dispatch_kind(s3, msg, now_ms)

(***************************************************************************)
(* RuntimeState: outbound emission                                         *)
(***************************************************************************)
\* variant: the outbound sequence number is written to last_seq as well
emit_command_shared_seq(s, action, now_ms) ==
    LET seq == saturating_add(s.outbound_seq, 1)
        corr_id == <<"corr", seq>>
        envelope == [v |-> 1, seq |-> seq, source |-> s.device_id,
                     device_id |-> s.device_id, session_id |-> "boot",
                     message_id |-> <<"cmd", seq>>]
    IN  [state |-> [s EXCEPT
                !.outbound_seq = seq,
                !.last_seq = seq,
                !.in_flight = (corr_id :> [corr_id |-> corr_id, action |-> action,
                                           enqueued_at_ms |-> now_ms]) @@ s.in_flight],
         ret |-> [envelope |-> envelope, kind |-> "Command", corr_id |-> Some(corr_id),
                  ttl_ms |-> None, issued_at |-> Some(now_ms),
                  payload |-> JsonObject([action |-> action])]]

emit_command(s, action, now_ms) ==
    LET seq == saturating_add(s.outbound_seq, 1)
        corr_id == <<"corr", seq>>
        envelope == [v |-> 1, seq |-> seq, source |-> s.device_id,
                     device_id |-> s.device_id, session_id |-> "boot",
                     message_id |-> <<"cmd", seq>>]
    IN  [state |-> [s EXCEPT
                !.outbound_seq = seq,
                !.in_flight = (corr_id :> [corr_id |-> corr_id, action |-> action,
                                           enqueued_at_ms |-> now_ms]) @@ s.in_flight],
         ret |-> [envelope |-> envelope, kind |-> "Command", corr_id |-> Some(corr_id),
                  ttl_ms |-> None, issued_at |-> Some(now_ms),
                  payload |-> JsonObject([action |-> action])]]

\* variant: the request is sent without noting the pending reconciliation
emit_snapshot_request_unnoted(s, now_ms) ==
    LET seq == saturating_add(s.outbound_seq, 1)
        envelope == [v |-> 1, seq |-> seq, source |-> s.device_id,
                     device_id |-> s.device_id, session_id |-> "boot",
                     message_id |-> <<"snap-req", seq>>]
    IN  [state |-> [s EXCEPT !.outbound_seq = seq],
         ret |-> [envelope |-> envelope, kind |-> "SnapshotRequest", corr_id |-> None,
                  ttl_ms |-> None, issued_at |-> Some(now_ms),
                  payload |-> JsonObject([reason |-> "transport_reconnect"])]]

emit_snapshot_request(s, now_ms) ==
    LET seq == saturating_add(s.outbound_seq, 1)
        envelope == [v |-> 1, seq |-> seq, source |-> s.device_id,
                     device_id |-> s.device_id, session_id |-> "boot",
                     message_id |-> <<"snap-req", seq>>]
    IN  [state |-> [s EXCEPT !.outbound_seq = seq, !.pending_reconciliation = TRUE],
         ret |-> [envelope |-> envelope, kind |-> "SnapshotRequest", corr_id |-> None,
                  ttl_ms |-> None, issued_at |-> Some(now_ms),
                  payload |-> JsonObject([reason |-> "transport_reconnect"])]]

(***************************************************************************)
(* RuntimeState: liveness, safety and boot bookkeeping                     *)
(***************************************************************************)
\* variant: a heartbeat as old as the timeout is stale already
mark_offline_if_stale_at_timeout(s, now_ms, heartbeat_timeout_ms) ==
    IF s.mode.tag = "Offline" THEN [state |-> s, ret |-> FALSE]
    ELSE LET last_seen == unwrap_or(s.last_heartbeat_ms, now_ms)
         IN  IF saturating_sub(now_ms, last_seen) >= heartbeat_timeout_ms
             THEN [state |-> mark_offline_with_reason(s, "heartbeat_stale", now_ms),
                   ret |-> TRUE]
             ELSE [state |-> s, ret |-> FALSE]

mark_offline_if_stale(s, now_ms, heartbeat_timeout_ms) ==
    IF s.mode.tag = "Offline" THEN [state |-> s, ret |-> FALSE]
    ELSE LET last_seen == unwrap_or(s.last_heartbeat_ms, now_ms)
         IN  IF saturating_sub(now_ms, last_seen) > heartbeat_timeout_ms
             THEN [state |-> mark_offline_with_reason(s, "heartbeat_stale", now_ms),
                   ret |-> TRUE]
             ELSE [state |-> s, ret |-> FALSE]

\* variant: the lockdown needs more failures than the limit
safety_lockdown_check_gt(s) ==
    IF s.mode.tag = "SafeMode" THEN [state |-> s, ret |-> FALSE]
    ELSE IF s.safety_fail_count > s.safety_fail_limit
         THEN [state |-> [s EXCEPT !.mode =
                            SafeMode("safety_retries_exhausted_entering_safe_mode")],
               ret |-> TRUE]
         ELSE [state |-> s, ret |-> FALSE]

safety_lockdown_check(s) ==
    IF s.mode.tag = "SafeMode" THEN [state |-> s, ret |-> FALSE]
    ELSE IF s.safety_fail_count >= s.safety_fail_limit
         THEN [state |-> [s EXCEPT !.mode =
                            SafeMode("safety_retries_exhausted_entering_safe_mode")],
               ret |-> TRUE]
         ELSE [state |-> s, ret |-> FALSE]

mark_ota_complete(s, success, reason) ==
    LET s1 == [s EXCEPT !.ota_in_progress = FALSE, !.ota_error_reason = reason]
    IN  IF success
        THEN [state |-> [s1 EXCEPT !.last_status = [s1.last_status EXCEPT
                                                        !.ota_state = Some("active")],
                                   !.mode = Connected],
              ret |-> RaiseUiState("ota_complete")]
        ELSE [state |-> [s1 EXCEPT !.last_status = [s1.last_status EXCEPT
                                                        !.ota_state = Some("failed")]],
              ret |-> RaiseUiState("ota_failed")]

\* variant: the Offline transition follows in both branches
mark_boot_failure_then_offline(s, now_ms, reason) ==
    LET s1 == [s EXCEPT !.boot_failure_count = saturating_add(s.boot_failure_count, 1)]
        s2 == persist_boot_failure_count(s1)
        s3 == push_diagnostic(s2, reason)
        s4 == IF s3.boot_failure_count >= s3.boot_retry_limit
              THEN [s3 EXCEPT !.mode = SafeMode("boot_failures_exceeded")]
              ELSE [s3 EXCEPT !.mode = Error("boot_retry")]
    IN  mark_offline_with_reason(s4, "boot_failure_detected", now_ms)

mark_boot_failure(s, now_ms, reason) ==
    LET s1 == [s EXCEPT !.boot_failure_count = saturating_add(s.boot_failure_count, 1)]
        s2 == persist_boot_failure_count(s1)
        s3 == push_diagnostic(s2, reason)
    IN  IF s3.boot_failure_count >= s3.boot_retry_limit
        THEN push_diagnostic([s3 EXCEPT !.mode = SafeMode("boot_failures_exceeded"),
                                        !.offline_since_ms = Some(now_ms)],
                             "boot_failure_detected")
        ELSE mark_offline_with_reason([s3 EXCEPT !.mode = Error("boot_retry")],
                                      "boot_failure_detected", now_ms)

\* variant: a command is stale only when it is older than max_ms
reclaim_stale_inflight_gt(s, now_ms, max_ms) ==
    LET stale == {id \in DOMAIN s.in_flight :
                    saturating_sub(now_ms, s.in_flight[id].enqueued_at_ms) > max_ms}
        kept == [k \in (DOMAIN s.in_flight) \ stale |-> s.in_flight[k]]
        s1 == [s EXCEPT !.in_flight = kept,
                        !.safety_fail_count =
                            saturating_add(s.safety_fail_count, Cardinality(stale))]
    IN  [state |-> s1,
         ret |-> saturating_sub(Cardinality(DOMAIN s.in_flight),
                                Cardinality(DOMAIN s1.in_flight))]

reclaim_stale_inflight(s, now_ms, max_ms) ==
    LET stale == {id \in DOMAIN s.in_flight :
                    saturating_sub(now_ms, s.in_flight[id].enqueued_at_ms) >= max_ms}
        kept == [k \in (DOMAIN s.in_flight) \ stale |-> s.in_flight[k]]
        s1 == [s EXCEPT !.in_flight = kept,
                        !.safety_fail_count =
                            saturating_add(s.safety_fail_count, Cardinality(stale))]
    IN  [state |-> s1,
         ret |-> saturating_sub(Cardinality(DOMAIN s.in_flight),
                                Cardinality(DOMAIN s1.in_flight))]

(***************************************************************************)
(* Inbound frames offered to the device.                                   *)
(***************************************************************************)
Sources == {"host", "evil"}
Allowlists == {<<>>, <<"host">>, <<"*">>, <<"host", "*">>}

\* (ttl_ms, issued_at)
TtlVariants == {<<None, None>>, <<None, Some(0)>>, <<Some(0), Some(0)>>, <<Some(0), None>>,
                <<Some(0), Some(1)>>}

CorrIds == {None} \cup {Some(<<"corr", n>>) : n \in 1..MaxOutbound}

\* (kind, corr_id, payload)
Bodies ==
    {<<k, None, JsonNull>> : k \in {"HelloAck", "Heartbeat", "Error", "Unknown"}}
    \cup {<<"CommandAck", c, JsonNull>> : c \in CorrIds}
    \cup {<<"CommandResult", Some(<<"corr", 1>>), JsonNull>>,
          <<"CommandResult", None, JsonObject([action |-> "ota_start", result |-> "failed"])>>}
    \cup {<<"StatusSnapshot", None, JsonObject([wifi_ok |-> TRUE, mode |-> "ready"])>>,
          <<"StatusSnapshot", None, JsonObject([wifi_ok |-> TRUE, mode |-> "safe_mode"])>>,
          <<"StatusDelta", None, JsonObject(<<>>)>>,
          <<"StatusDelta", None, JsonNull>>}
    \cup {<<"Command", None, JsonNull>>,
          <<"Command", None, JsonObject([action |-> "restart"])>>,
          <<"Command", None, JsonObject([action |-> "ota_start",
                                         args |-> JsonObject([version |-> "1.2.3"])])>>,
          <<"HostCommand", None, JsonObject([action |-> "reconnect"])>>}

Frame(seq, source, message_id, body, ttl) ==
    [seq |-> seq, source |-> source, message_id |-> message_id,
     kind |-> body[1], corr_id |-> body[2], payload |-> body[3],
     ttl_ms |-> ttl[1], issued_at |-> ttl[2]]

\* the frames probed in every state of a session: every envelope and every TTL
\* setting on a Heartbeat, every body on a host frame without TTL
Frames ==
    {Frame(seq, source, id, <<"Heartbeat", None, JsonNull>>, ttl) :
        seq \in 0..MaxSeq, source \in Sources, id \in 1..MaxIds, ttl \in TtlVariants}
    \cup {Frame(seq, "host", id, body, <<None, Some(0)>>) :
        seq \in 1..MaxSeq, id \in 1..MaxIds, body \in Bodies}

\* the frames delivered in a session: the Heartbeats of Frames and the host
\* frames that greet, command and report an error
SessionBodies ==
    {<<"HelloAck", None, JsonNull>>, <<"Error", None, JsonNull>>,
     <<"Command", None, JsonObject([action |-> "restart"])>>}

SessionFrames ==
    {msg \in Frames : msg.kind = "Heartbeat"
                      \/ <<msg.kind, msg.corr_id, msg.payload>> \in SessionBodies}

\* frames of a boot session: the host greets, reports and commands
BootBodies ==
    {<<"HelloAck", None, JsonNull>>, <<"Heartbeat", None, JsonNull>>,
     <<"Error", None, JsonNull>>,
     <<"Command", None, JsonObject([action |-> "restart"])>>,
     <<"HostCommand", None, JsonObject([action |-> "reconnect"])>>,
     <<"StatusSnapshot", None, JsonObject([wifi_ok |-> TRUE, mode |-> "safe_mode"])>>,
     <<"StatusDelta", None, JsonObject([wifi_ok |-> FALSE])>>}

\* the host numbers the frames of a boot session consecutively, each with a
\* fresh message id, and may repeat its last frame
BootFrames(s) ==
    {Frame(seq, "host", seq, body, <<None, Some(0)>>) :
        seq \in {s.last_seq, s.last_seq + 1}, body \in BootBodies}

\* replies of the host to the device's emissions: acknowledgements, results
\* and snapshots, numbered consecutively, the last one possibly repeated
ReplyBodies ==
    {<<"Heartbeat", None, JsonNull>>,
     <<"CommandResult", Some(<<"corr", 1>>), JsonNull>>,
     <<"StatusSnapshot", None, JsonObject([wifi_ok |-> TRUE, mode |-> "ready"])>>,
     <<"StatusDelta", None, JsonNull>>}
    \cup {<<"CommandAck", c, JsonNull>> : c \in CorrIds}

ReplyFrames(s) ==
    {Frame(seq, "host", id, body, <<None, Some(0)>>) :
        seq \in {s.last_seq, s.last_seq + 1}, id \in 1..MaxIds, body \in ReplyBodies}

RejectMessages == {"command_denied_unauthorized_source", "message_expired_ttl",
                   "replay_or_duplicate_rejected"}

\* the call passed the source, TTL and replay checks
Accepts(s, msg, now_ms) ==
    /\ is_host_allowed(s, msg.source)
    /\ ~is_expired(msg, now_ms)
    /\ ~is_duplicate_or_stale(s, msg.seq, msg.message_id)

NoHistory == <<>>

\* history of the accepted message ids, updated by every call of
\* apply_transport_message from the state before (s) and after (t) the call
AcceptHistory(s, t, msg, now_ms) ==
    LET cleared == ~((DOMAIN s.seen_message_ids) \subseteq (DOMAIN t.seen_message_ids))
        c == IF cleared THEN clears + 1 ELSE clears
        before == IF msg.message_id \in DOMAIN accepted
                  THEN accepted[msg.message_id] ELSE <<>>
    IN  IF Accepts(s, msg, now_ms)
        THEN /\ clears' = c
             /\ accepted' = (msg.message_id :> Append(before, c)) @@ accepted
        ELSE UNCHANGED <<accepted, clears>>

\* the host and the queues are not part of a device session
HostIdle ==
    /\ host = <<>>
    /\ queue = <<>>
    /\ hist = <<>>

(***************************************************************************)
(* Actions: one call of a RuntimeState method each.                        *)
(***************************************************************************)
Call(r, op) ==
    /\ state' = r.state
    /\ ret' = [op |-> op, value |-> r.ret]

Receive(msg) ==
    /\ is_host_allowed(state, msg.source) \/ state.safety_fail_count < MaxSafetyFails
    /\ Call(apply_transport_message(state, msg, clock), "apply_transport_message")
    /\ AcceptHistory(state, state', msg, clock)
    /\ UNCHANGED <<clock, hostvars>>

ReceiveFrame == \E msg \in SessionFrames : Receive(msg)

ReceiveBootFrame ==
    /\ state.last_seq < MaxSeq
    /\ \E msg \in BootFrames(state) : Receive(msg)

ReceiveReplyFrame ==
    /\ state.last_seq < MaxSeq
    /\ \E msg \in ReplyFrames(state) : Receive(msg)

EmitCommand ==
    /\ state.outbound_seq < MaxOutbound
    /\ \E action \in {"status_get"} :
            Call(emit_command(state, action, clock), "emit_command")
    /\ UNCHANGED <<clock, accepted, clears, hostvars>>

EmitSnapshotRequest ==
    /\ state.outbound_seq < MaxOutbound
    /\ Call(emit_snapshot_request(state, clock), "emit_snapshot_request")
    /\ UNCHANGED <<clock, accepted, clears, hostvars>>

MarkOfflineIfStale ==
    /\ \E timeout \in {0, 1} :
            Call(mark_offline_if_stale(state, clock, timeout), "mark_offline_if_stale")
    /\ UNCHANGED <<clock, accepted, clears, hostvars>>

SafetyLockdownCheck ==
    /\ Call(safety_lockdown_check(state), "safety_lockdown_check")
    /\ UNCHANGED <<clock, accepted, clears, hostvars>>

ReclaimStaleInflight ==
    /\ \E max_ms \in {1, 2} :
            Call(reclaim_stale_inflight(state, clock, max_ms), "reclaim_stale_inflight")
    /\ UNCHANGED <<clock, accepted, clears, hostvars>>

MarkBootFailure ==
    /\ state.boot_failure_count < MaxBootFailures
    /\ Len(state.diagnostics) < MaxDiagnostics
    /\ Call([state |-> mark_boot_failure(state, clock, "boot_failed"), ret |-> TRUE],
            "mark_boot_failure")
    /\ UNCHANGED <<clock, accepted, clears, hostvars>>

ClearBootFailureCount ==
    /\ Call([state |-> clear_boot_failure_count(state), ret |-> TRUE],
            "clear_boot_failure_count")
    /\ UNCHANGED <<clock, accepted, clears, hostvars>>

\* the process restarts: the state is constructed again the way it was
\* constructed at first, from the storage contents the old process left
Restart ==
    /\ Call([state |-> IF is_some(state.storage)
                       THEN with_storage(unwrap(state.storage))
                       ELSE with_host_allowlist(state.host_allowlist),
             ret |-> TRUE], "restart")
    /\ accepted' = NoHistory
    /\ clears' = 0
    /\ UNCHANGED <<clock, hostvars>>

Tick ==
    /\ clock < MaxNow
    /\ clock' = clock + 1
    /\ UNCHANGED <<state, ret, accepted, clears, hostvars>>

Storages ==
    {InMemoryStorage_new}
    \cup {set_u32(InMemoryStorage_new, BOOT_FAILURE_COUNT, n) : n \in 0..MaxBootFailures}

Init ==
    /\ state \in {with_host_allowlist(hosts) : hosts \in Allowlists}
    /\ clock = 0
    /\ ret = [op |-> "new", value |-> TRUE]
    /\ accepted = NoHistory
    /\ clears = 0
    /\ HostIdle

Next ==
    \/ ReceiveFrame
    \/ Tick

\* the device runtime in one session: inbound frames and time
Spec == Init /\ [][Next]_vars

InitEmit ==
    /\ state = RuntimeState_new
    /\ clock = 0
    /\ ret = [op |-> "new", value |-> TRUE]
    /\ accepted = NoHistory
    /\ clears = 0
    /\ HostIdle

NextEmit ==
    \/ ReceiveReplyFrame
    \/ EmitCommand
    \/ EmitSnapshotRequest
    \/ ReclaimStaleInflight
    \/ Tick

\* the device emitting commands and snapshot requests while the host replies
SpecEmit == InitEmit /\ [][NextEmit]_vars

InitBoot ==
    /\ state \in {RuntimeState_new} \cup {with_storage(storage) : storage \in Storages}
    /\ clock = 0
    /\ ret = [op |-> "new", value |-> TRUE]
    /\ accepted = NoHistory
    /\ clears = 0
    /\ HostIdle

NextBoot ==
    \/ ReceiveBootFrame
    \/ MarkOfflineIfStale
    \/ SafetyLockdownCheck
    \/ MarkBootFailure
    \/ ClearBootFailureCount
    \/ Restart
    \/ Tick

\* the device over boots and restarts, with its boot-failure bookkeeping
SpecBoot == InitBoot /\ [][NextBoot]_vars

(***************************************************************************)
(* A long session: the host numbers its frames consecutively and gives     *)
(* each a fresh message id or reuses the id of its first frame.            *)
(***************************************************************************)
LongSessionFrames == SEEN_IDS_LIMIT + 2 + ExtraLongFrames

LongBodies == {<<"Heartbeat", None, JsonNull>>, <<"Error", None, JsonNull>>}

LongFrames(s) ==
    {Frame(seq, "host", id, body, <<None, Some(0)>>) :
        seq \in {s.last_seq, s.last_seq + 1}, id \in {1, s.last_seq + 1},
        body \in LongBodies}

ReceiveLongFrame ==
    /\ state.last_seq < LongSessionFrames
    /\ \E msg \in LongFrames(state) : Receive(msg)

InitLong ==
    /\ state = RuntimeState_new
    /\ clock = 0
    /\ ret = [op |-> "new", value |-> TRUE]
    /\ accepted = NoHistory
    /\ clears = 0
    /\ HostIdle

NextLong == ReceiveLongFrame

SpecLong == InitLong /\ [][NextLong]_vars

(***************************************************************************)
(* microclaw-queue: GroupQueue, and the ExecutionQueue the host uses       *)
(* (spec section 4.6).  A per-group FIFO is a function from the groups     *)
(* that have an entry to sequences of items.                               *)
(***************************************************************************)
GroupQueue_new(capacity) == [per_group |-> <<>>, capacity |-> capacity]

group_entry(per_group, group) ==
    IF group \in DOMAIN per_group THEN per_group[group] ELSE <<>>

\* variant: the item is put in front of the queued ones
GroupQueue_push_front(q, group, item) ==
    LET cur == group_entry(q.per_group, group)
    IN  [q EXCEPT !.per_group =
            (group :> IF Len(cur) < q.capacity THEN <<item>> \o cur ELSE cur) @@ q.per_group]

GroupQueue_push(q, group, item) ==
    LET cur == group_entry(q.per_group, group)
    IN  [q EXCEPT !.per_group =
            (group :> IF Len(cur) < q.capacity THEN Append(cur, item) ELSE cur) @@ q.per_group]

GroupQueue_pop(q, group) ==
    IF group \in DOMAIN q.per_group /\ q.per_group[group] # <<>>
    THEN [queue |-> [q EXCEPT !.per_group[group] = Tail(@)],
          ret |-> Some(Head(q.per_group[group]))]
    ELSE [queue |-> q, ret |-> None]

RetryPolicy_new(max_attempts, base_ms) == [max_attempts |-> max_attempts, base_ms |-> base_ms]

RECURSIVE Pow2(_)
Pow2(n) == IF n = 0 THEN 1 ELSE 2 * Pow2(n - 1)

Min(a, b) == IF a < b THEN a ELSE b

\* backoff(n) = base_ms * 2^min(n, 12)
RetryPolicy_backoff(policy, n) == policy.base_ms * Pow2(Min(n, 12))

\* group_share: the in-flight share of one group
ExecutionQueue_new(max_inflight, policy, group_share) ==
    [per_group |-> <<>>, in_flight |-> <<>>, max_inflight |-> max_inflight,
     policy |-> policy, group_share |-> group_share]

QueueItem(id, group, payload) ==
    [id |-> id, group |-> group, payload |-> payload, attempts |-> 0,
     next_visible_at_ms |-> 0]

enqueue(q, group, id, payload) ==
    [q EXCEPT !.per_group =
        (group :> Append(group_entry(q.per_group, group), QueueItem(id, group, payload)))
            @@ q.per_group]

in_flight_of(q, group) ==
    Cardinality({i \in DOMAIN q.in_flight : q.in_flight[i].group = group})

\* the groups whose front item may be handed out at now
ready_groups(q, now) ==
    IF Len(q.in_flight) >= q.max_inflight THEN {}
    ELSE {g \in DOMAIN q.per_group :
            /\ q.per_group[g] # <<>>
            /\ Head(q.per_group[g]).next_visible_at_ms <= now
            /\ in_flight_of(q, g) < q.group_share}

\* variant: the global in-flight bound is not looked at
next_ready_unbounded(q, now, order) ==
    LET ready == {g \in DOMAIN q.per_group :
                    /\ q.per_group[g] # <<>>
                    /\ Head(q.per_group[g]).next_visible_at_ms <= now}
        first == {i \in DOMAIN order :
                    order[i] \in ready /\ \A j \in 1..(i - 1) : order[j] \notin ready}
    IN  IF first = {} THEN [queue |-> q, ret |-> None]
        ELSE LET g == order[CHOOSE i \in first : TRUE]
                 item == Head(q.per_group[g])
             IN  [queue |-> [q EXCEPT !.per_group[g] = Tail(@),
                                      !.in_flight = Append(@, item)],
                  ret |-> Some(item)]

\* order: the order in which the groups are looked at
next_ready(q, now, order) ==
    LET ready == ready_groups(q, now)
        first == {i \in DOMAIN order :
                    order[i] \in ready /\ \A j \in 1..(i - 1) : order[j] \notin ready}
    IN  IF first = {} THEN [queue |-> q, ret |-> None]
        ELSE LET g == order[CHOOSE i \in first : TRUE]
                 item == Head(q.per_group[g])
             IN  [queue |-> [q EXCEPT !.per_group[g] = Tail(@),
                                      !.in_flight = Append(@, item)],
                  ret |-> Some(item)]

\* the in-flight items without the first one equal to item
remove_one(items, item) ==
    LET at == {i \in DOMAIN items : items[i] = item}
    IN  IF at = {} THEN items
        ELSE LET k == CHOOSE i \in at : \A j \in at : i <= j
             IN  SubSeq(items, 1, k - 1) \o SubSeq(items, k + 1, Len(items))

\* variant: the delay does not grow with the attempts
complete_flat_backoff(q, item, ok, now) ==
    LET q1 == [q EXCEPT !.in_flight = remove_one(@, item)]
    IN  IF ~ok /\ item.attempts < q.policy.max_attempts
        THEN LET again == [item EXCEPT
                    !.next_visible_at_ms = now + q.policy.base_ms,
                    !.attempts = @ + 1]
             IN  [q1 EXCEPT !.per_group =
                    (item.group :> <<again>> \o group_entry(q1.per_group, item.group))
                        @@ q1.per_group]
        ELSE q1

complete(q, item, ok, now) ==
    LET q1 == [q EXCEPT !.in_flight = remove_one(@, item)]
    IN  IF ~ok /\ item.attempts < q.policy.max_attempts
        THEN LET again == [item EXCEPT
                    !.next_visible_at_ms = now + RetryPolicy_backoff(q.policy, item.attempts),
                    !.attempts = @ + 1]
             IN  [q1 EXCEPT !.per_group =
                    (item.group :> <<again>> \o group_entry(q1.per_group, item.group))
                        @@ q1.per_group]
        ELSE q1

(***************************************************************************)
(* microclaw-host: configuration, loopback transport, construction.        *)
(* The scheduled tasks of the store are a function from task ids to        *)
(* ScheduledTask records.  A frame and a Command work item carry the       *)
(* history field `cause`: the inbound frame that made the host produce it. *)
(***************************************************************************)
HostConfig_default ==
    [host_id |-> "microclaw-host",
     device_id |-> "microclaw-device",
     container_backend |-> "apple",
     max_inflight |-> 4,
     queue_retry_max_attempts |-> 3,
     queue_retry_backoff_ms |-> 500,
     scheduler_poll_interval_ms |-> 1000,
     allowed_sources |-> <<>>,
     allowed_host_actions |-> <<"status_get", "sync_now">>,
     transport_reconnect_backoff_ms |-> 1000,
     health_log_interval_ms |-> 5000,
     dry_run |-> FALSE]

LoopTransport_new(depth) ==
    [inbound |-> <<>>, outbound |-> <<>>, connected |-> TRUE,
     max_inbound |-> depth, max_outbound |-> depth,
     drops_in |-> 0, drops_out |-> 0, inbound_frames |-> 0, outbound_frames |-> 0]

push_inbound(t, frame) ==
    IF Len(t.inbound) >= t.max_inbound
    THEN [t EXCEPT !.inbound = Append(Tail(@), frame),
                   !.drops_in = saturating_add(@, 1)]
    ELSE [t EXCEPT !.inbound = Append(@, frame)]

poll_frames(t) ==
    [transport |-> [t EXCEPT !.inbound = <<>>,
                             !.inbound_frames = saturating_add(@, Len(t.inbound))],
     ret |-> t.inbound]

send_frame(t, frame) ==
    LET kept == IF Len(t.outbound) >= t.max_outbound THEN Tail(t.outbound) ELSE t.outbound
    IN  [t EXCEPT !.outbound = Append(kept, frame),
                  !.drops_out = IF Len(t.outbound) >= t.max_outbound
                                THEN saturating_add(@, 1) ELSE @,
                  !.outbound_frames = saturating_add(@, 1)]

HostActionNames ==
    {"reconnect", "wifi_reconnect", "status_get", "sync_now", "open_conversation",
     "mic_toggle", "mute", "end_session", "unpair", "diagnostics_snapshot", "restart",
     "retry", "ota_start"}

parse_host_action(raw) ==
    IF raw \in {"status", "host_status"} THEN Some("status_get")
    ELSE IF raw \in HostActionNames THEN Some(raw)
    ELSE None

HostStatus_default ==
    [ticks |-> 0, inbound_frames |-> 0, outbound_frames |-> 0, inbound_filtered |-> 0,
     bus_replayed |-> 0, scheduler_polls |-> 0, scheduled_enqueued |-> 0,
     work_completed |-> 0, work_retries |-> 0, work_failed |-> 0,
     commands_rejected |-> 0, last_error |-> None]

Range(f) == {f[i] : i \in DOMAIN f}

\* variant: the queue is built with a retry limit one above the configured one
Host_new_more_retries(config, tasks) ==
    [config |-> config,
     store |-> [tasks |-> tasks],
     transport |-> LoopTransport_new(DEFAULT_LOOPBACK_DEPTH),
     queue |-> ExecutionQueue_new(config.max_inflight,
                                  RetryPolicy_new(config.queue_retry_max_attempts + 1,
                                                  config.queue_retry_backoff_ms),
                                  config.max_inflight),
     bus |-> <<>>,
     last_bus_seq |-> 0,
     last_scheduler_ms |-> 0,
     next_health_log_ms |-> 0,
     next_transport_retry_ms |-> 0,
     allowed_sources |-> Range(config.allowed_sources),
     allowed_actions |-> {unwrap(parse_host_action(raw)) :
                            raw \in {r \in Range(config.allowed_host_actions) :
                                        is_some(parse_host_action(r))}},
     inflight_task_ids |-> {},
     transport_recoveries |-> 0,
     backend_failures |-> 0,
     backend_circuit_until |-> 0,
     status |-> HostStatus_default]

\* variant: the queue is built with room for one more item in flight
Host_new_wider(config, tasks) ==
    [config |-> config,
     store |-> [tasks |-> tasks],
     transport |-> LoopTransport_new(DEFAULT_LOOPBACK_DEPTH),
     queue |-> ExecutionQueue_new(config.max_inflight + 1,
                                  RetryPolicy_new(config.queue_retry_max_attempts,
                                                  config.queue_retry_backoff_ms),
                                  config.max_inflight + 1),
     bus |-> <<>>,
     last_bus_seq |-> 0,
     last_scheduler_ms |-> 0,
     next_health_log_ms |-> 0,
     next_transport_retry_ms |-> 0,
     allowed_sources |-> Range(config.allowed_sources),
     allowed_actions |-> {unwrap(parse_host_action(raw)) :
                            raw \in {r \in Range(config.allowed_host_actions) :
                                        is_some(parse_host_action(r))}},
     inflight_task_ids |-> {},
     transport_recoveries |-> 0,
     backend_failures |-> 0,
     backend_circuit_until |-> 0,
     status |-> HostStatus_default]

Host_new(config, tasks) ==
    [config |-> config,
     store |-> [tasks |-> tasks],
     transport |-> LoopTransport_new(DEFAULT_LOOPBACK_DEPTH),
     queue |-> ExecutionQueue_new(config.max_inflight,
                                  RetryPolicy_new(config.queue_retry_max_attempts,
                                                  config.queue_retry_backoff_ms),
                                  config.max_inflight),
     bus |-> <<>>,
     last_bus_seq |-> 0,
     last_scheduler_ms |-> 0,
     next_health_log_ms |-> 0,
     next_transport_retry_ms |-> 0,
     allowed_sources |-> Range(config.allowed_sources),
     allowed_actions |-> {unwrap(parse_host_action(raw)) :
                            raw \in {r \in Range(config.allowed_host_actions) :
                                        is_some(parse_host_action(r))}},
     inflight_task_ids |-> {},
     transport_recoveries |-> 0,
     backend_failures |-> 0,
     backend_circuit_until |-> 0,
     status |-> HostStatus_default]

is_source_allowed(h, source) ==
    IF h.allowed_sources = {} THEN TRUE ELSE source \in h.allowed_sources

build_outbound(h, destination, kind, payload, corr_id, now, cause) ==
    [envelope |-> [v |-> 1, seq |-> 1, source |-> h.config.host_id,
                   device_id |-> destination, session_id |-> destination,
                   message_id |-> <<IF destination = "" THEN "global" ELSE destination, now>>],
     kind |-> kind, corr_id |-> corr_id, ttl_ms |-> None, issued_at |-> None,
     payload |-> payload, cause |-> cause]

emit_outbound(h, frame) ==
    [h EXCEPT !.status.outbound_frames = saturating_add(@, 1),
              !.transport = send_frame(@, frame)]

WorkCommand(action, corr_id, group, source, args, cause) ==
    [work |-> "Command", action |-> action, corr_id |-> corr_id, group |-> group,
     source |-> source, args |-> args, cause |-> cause]

WorkScheduledTask(task) == [work |-> "ScheduledTask", task |-> task]

\* variant: the denial is sent without the corr_id of the command
enqueue_command_uncorrelated(h, now, source, group, corr_id, cmd, destination, cause) ==
    IF h.config.allowed_host_actions # <<>> /\ cmd.action \notin h.allowed_actions
    THEN LET h1 == [h EXCEPT !.status.commands_rejected = saturating_add(@, 1)]
             rejected == build_outbound(h1, destination, "Error",
                            JsonObject([error |-> [code |-> "command_denied",
                                                   detail |-> "command is not in host allowlist",
                                                   recoverable |-> FALSE,
                                                   retry_after_ms |-> None],
                                        source |-> source]),
                            None, now, cause)
         IN  emit_outbound(h1, rejected)
    ELSE LET work_group == IF group = "" THEN destination ELSE group
         IN  [h EXCEPT !.queue =
                enqueue(@, work_group, <<"cmd", destination, now>>,
                        WorkCommand(cmd.action, corr_id, work_group, source, cmd.args, cause))]

enqueue_command(h, now, source, group, corr_id, cmd, destination, cause) ==
    IF h.config.allowed_host_actions # <<>> /\ cmd.action \notin h.allowed_actions
    THEN LET h1 == [h EXCEPT !.status.commands_rejected = saturating_add(@, 1)]
             rejected == build_outbound(h1, destination, "Error",
                            JsonObject([error |-> [code |-> "command_denied",
                                                   detail |-> "command is not in host allowlist",
                                                   recoverable |-> FALSE,
                                                   retry_after_ms |-> None],
                                        source |-> source]),
                            corr_id, now, cause)
         IN  emit_outbound(h1, rejected)
    ELSE LET work_group == IF group = "" THEN destination ELSE group
         IN  [h EXCEPT !.queue =
                enqueue(@, work_group, <<"cmd", destination, now>>,
                        WorkCommand(cmd.action, corr_id, work_group, source, cmd.args, cause))]

\* the body of the loop of process_inbound for one frame
process_frame(h, frame, now) ==
    IF ~is_source_allowed(h, frame.source)
    THEN [h EXCEPT !.status.inbound_filtered = saturating_add(@, 1)]
    ELSE IF frame.kind \in {"Command", "HostCommand"}
    THEN LET cmd == as_device_command(frame)
         IN  IF is_some(cmd)
             THEN enqueue_command(h, now, frame.source, frame.session_id, frame.corr_id,
                                  unwrap(cmd), frame.device_id, frame.cause)
             ELSE h
    ELSE IF frame.kind = "Heartbeat"
    THEN emit_outbound(h, build_outbound(h, frame.session_id, "CommandResult",
                            JsonObject([ok |-> TRUE, backend |-> h.config.container_backend]),
                            frame.corr_id, now, frame.cause))
    ELSE h

RECURSIVE process_frames(_, _, _)
process_frames(h, frames, now) ==
    IF frames = <<>> THEN h
    ELSE process_frames(process_frame(h, Head(frames), now), Tail(frames), now)

\* variant: a frame from a filtered source is handled like any other frame
process_inbound_unfiltered(h, now) ==
    LET polled == poll_frames(h.transport)
        open == [h EXCEPT !.transport = polled.transport, !.allowed_sources = {}]
        done == process_frames(open, polled.ret, now)
    IN  [host |-> [done EXCEPT !.allowed_sources = h.allowed_sources],
         ret |-> Len(polled.ret)]

process_inbound(h, now) ==
    LET polled == poll_frames(h.transport)
    IN  [host |-> process_frames([h EXCEPT !.transport = polled.transport], polled.ret, now),
         ret |-> Len(polled.ret)]

(***************************************************************************)
(* microclaw-scheduler over the store's scheduled_tasks table.             *)
(***************************************************************************)
\* a string id is the tuple of its parts: "t1" is <<"t1">>, "cmd-dev-7" is <<"cmd", "dev", 7>>
TaskIds == <<<<"t1">>, <<"t2">>>>

ScheduledTask(id, chat_jid, schedule_type, schedule_value, next_run, status) ==
    [id |-> id, chat_jid |-> chat_jid, schedule_type |-> schedule_type,
     schedule_value |-> schedule_value, next_run |-> next_run, last_run |-> None,
     status |-> status]

RECURSIVE select_tasks(_, _, _)
select_tasks(tasks, ids, now) ==
    IF ids = <<>> THEN <<>>
    ELSE LET rest == select_tasks(tasks, Tail(ids), now)
             id == Head(ids)
         IN  IF /\ id \in DOMAIN tasks
                /\ tasks[id].status = "active"
                /\ is_some(tasks[id].next_run)
                /\ unwrap(tasks[id].next_run) <= now
             THEN <<tasks[id]>> \o rest
             ELSE rest

\* Ok(list) of the active tasks with next_run <= now, or Err when the store fails
due_tasks(store, now, store_ok) ==
    IF store_ok THEN [ok |-> TRUE, list |-> select_tasks(store.tasks, TaskIds, now)]
    ELSE [ok |-> FALSE, list |-> <<>>]

compute_next_run(schedule_type, schedule_value, now) ==
    IF schedule_type = "Once" THEN None ELSE Some(now + schedule_value)

update_task_after_run(store, id, next_run, now) ==
    [store EXCEPT !.tasks[id].next_run = next_run, !.tasks[id].last_run = Some(now)]

(***************************************************************************)
(* microclaw-host: one step.  env is what the outside answers during the   *)
(* step: store_ok (the store's queries succeed), backend ("ok": the        *)
(* container ran and exited 0, "nonzero": it ran and exited non-zero,      *)
(* "err": the runner failed) and order (the queue's pick among ready       *)
(* groups).  now_ms() reads the same clock the step was given.             *)
(***************************************************************************)
Ok(h, v) == [host |-> h, ok |-> TRUE, value |-> v]
Err(h, e) == [host |-> h, ok |-> FALSE, value |-> e]

process_bus(h) ==
    LET events == SelectSeq(h.bus, LAMBDA env : env.seq > h.last_bus_seq)
    IN  [host |-> [h EXCEPT !.last_bus_seq = IF events = <<>> THEN @
                                               ELSE events[Len(events)].seq,
                            !.status.bus_replayed = saturating_add(@, Len(events))],
         ret |-> Len(events)]

RECURSIVE enqueue_due(_, _)
enqueue_due(h, due) ==
    IF due = <<>> THEN h
    ELSE LET task == Head(due)
         IN  IF task.status # "active" \/ task.id \in h.inflight_task_ids
             THEN enqueue_due(h, Tail(due))
             ELSE enqueue_due(
                    [h EXCEPT !.queue = enqueue(@, task.chat_jid, task.id,
                                                WorkScheduledTask(task)),
                              !.inflight_task_ids = @ \cup {task.id},
                              !.status.scheduled_enqueued = saturating_add(@, 1)],
                    Tail(due))

\* the rate limit of poll_scheduler: the store is asked for due tasks
poll_due(h, now) ==
    ~(/\ h.last_scheduler_ms # 0
      /\ saturating_sub(now, h.last_scheduler_ms) < h.config.scheduler_poll_interval_ms)

\* variant: a due task is enqueued whether or not its id is in flight
poll_scheduler_unguarded(h, now, env) ==
    IF ~poll_due(h, now) THEN h
    ELSE LET h1 == [h EXCEPT !.last_scheduler_ms = now]
             due == due_tasks(h1.store, now, env.store_ok)
         IN  IF ~due.ok THEN [h1 EXCEPT !.status.last_error = Some("store")]
             ELSE enqueue_due([h1 EXCEPT !.inflight_task_ids = {}], due.list)

poll_scheduler(h, now, env) ==
    IF ~poll_due(h, now) THEN h
    ELSE LET h1 == [h EXCEPT !.last_scheduler_ms = now]
             due == due_tasks(h1.store, now, env.store_ok)
         IN  IF ~due.ok THEN [h1 EXCEPT !.status.last_error = Some("store")]
             ELSE enqueue_due(h1, due.list)

\* variant: the backend is invoked although the circuit is open
run_in_sandbox_no_breaker(h, task, now, env) ==
    IF h.config.dry_run THEN Ok(h, [status |-> 0])
    ELSE IF env.backend # "err"
    THEN Ok([h EXCEPT !.backend_failures = 0, !.backend_circuit_until = 0],
            [status |-> IF env.backend = "ok" THEN 0 ELSE 1])
    ELSE LET failures == saturating_add(h.backend_failures, 1)
             backoff_ms == Pow2(Min(failures, 12)) * h.config.queue_retry_backoff_ms
         IN  Err([h EXCEPT !.backend_failures = failures,
                           !.backend_circuit_until =
                               saturating_add(now, Min(backoff_ms, BACKEND_CIRCUIT_CAP_MS))],
                 "sandbox_run_failed")

run_in_sandbox(h, task, now, env) ==
    IF h.config.dry_run THEN Ok(h, [status |-> 0])
    ELSE IF now < h.backend_circuit_until
    THEN Err(h, "sandbox backend circuit breaker active")
    ELSE IF env.backend # "err"
    THEN Ok([h EXCEPT !.backend_failures = 0, !.backend_circuit_until = 0],
            [status |-> IF env.backend = "ok" THEN 0 ELSE 1])
    ELSE LET failures == saturating_add(h.backend_failures, 1)
             backoff_ms == Pow2(Min(failures, 12)) * h.config.queue_retry_backoff_ms
         IN  Err([h EXCEPT !.backend_failures = failures,
                           !.backend_circuit_until =
                               saturating_add(now, Min(backoff_ms, BACKEND_CIRCUIT_CAP_MS))],
                 "sandbox_run_failed")

\* variant: the result is built without the corr_id of the command
handle_command_uncorrelated(h, w, now, env) ==
    IF w.action = "sync_now" /\ ~due_tasks(h.store, now, env.store_ok).ok
    THEN Err(h, "scheduler_check_failed")
    ELSE Ok(h, Some(build_outbound(h, w.group, "CommandResult",
                                   JsonObject([action |-> w.action]), None, now, w.cause)))

handle_command(h, w, now, env) ==
    IF w.action = "sync_now" /\ ~due_tasks(h.store, now, env.store_ok).ok
    THEN Err(h, "scheduler_check_failed")
    ELSE Ok(h, Some(build_outbound(h, w.group, "CommandResult",
                                   JsonObject([action |-> w.action]), w.corr_id, now, w.cause)))

handle_scheduled_task(h, task, now, env) ==
    LET output == run_in_sandbox(h, task, now, env)
    IN  IF ~output.ok THEN output
        ELSE IF output.value.status # 0 THEN Err(output.host, "sandbox execution failed")
        ELSE LET next_run == IF task.schedule_type = "Once" THEN None
                             ELSE compute_next_run(task.schedule_type, task.schedule_value, now)
             IN  IF ~env.store_ok THEN Err(output.host, "task_update_failed")
                 ELSE LET h1 == [output.host EXCEPT
                                   !.store = update_task_after_run(@, task.id, next_run, now)]
                      IN  Ok(h1, Some(build_outbound(h1, task.chat_jid, "CommandResult",
                                        JsonObject([task_id |-> task.id, next_run |-> next_run]),
                                        None, now, [kind |-> "ScheduledTask", id |-> task.id])))

run_work(h, work, now, env) ==
    IF work.work = "Command" THEN handle_command(h, work, now, env)
    ELSE handle_scheduled_task(h, work.task, now, env)

Max(a, b) == IF a >= b THEN a ELSE b

\* the while loop of process_queue; peak is the largest number of items seen in
\* flight, runs the log of the items in the order they were run: the item, its
\* outcome, the host when the item was taken and the host when it was completed
RECURSIVE process_queue_loop(_, _, _, _)
process_queue_loop(h, now, env, acc) ==
    LET got == next_ready(h.queue, now, env.order)
    IN  IF ~is_some(got.ret) THEN [host |-> h, ret |-> acc.processed, peak |-> acc.peak,
                                   runs |-> acc.runs]
        ELSE LET item == unwrap(got.ret)
                 h0 == [h EXCEPT !.queue = got.queue]
                 res == run_work(h0, item.payload, now, env)
                 finished == item.attempts >= h.config.queue_retry_max_attempts
                 h1 == IF res.ok
                       THEN LET sent == IF is_some(res.value)
                                        THEN emit_outbound(res.host, unwrap(res.value))
                                        ELSE res.host
                            IN  [sent EXCEPT
                                   !.status.work_completed = saturating_add(@, 1),
                                   !.inflight_task_ids = @ \ {item.id}]
                       ELSE [res.host EXCEPT
                               !.status.work_failed = saturating_add(@, 1),
                               !.status.work_retries =
                                   IF finished THEN @ ELSE saturating_add(@, 1),
                               !.status.last_error = Some(res.value),
                               !.inflight_task_ids =
                                   IF finished THEN @ \ {item.id} ELSE @]
                 h2 == [h1 EXCEPT !.queue = complete(@, item, res.ok, now)]
             IN  process_queue_loop(h2, now, env,
                    [processed |-> acc.processed + 1,
                     peak |-> Max(acc.peak, Len(got.queue.in_flight)),
                     runs |-> Append(acc.runs, [item |-> item, ok |-> res.ok,
                                                error |-> IF res.ok THEN "" ELSE res.value,
                                                before |-> h0, after |-> h2])])

process_queue(h, now, env) ==
    process_queue_loop(h, now, env, [processed |-> 0, peak |-> 0, runs |-> <<>>])

\* variant: the retry is scheduled without a delay
recover_transport_if_needed_at_once(h, now) ==
    IF h.transport.connected \/ now < h.next_transport_retry_ms THEN h
    ELSE LET n == saturating_add(h.transport_recoveries, 1)
         IN  IF n > 0 /\ n < 2
             THEN [h EXCEPT !.transport_recoveries = n, !.next_transport_retry_ms = now]
             ELSE [h EXCEPT !.transport_recoveries = 0, !.transport.connected = TRUE]

recover_transport_if_needed(h, now) ==
    IF h.transport.connected \/ now < h.next_transport_retry_ms THEN h
    ELSE LET n == saturating_add(h.transport_recoveries, 1)
         IN  IF n > 0 /\ n < 2
             THEN [h EXCEPT !.transport_recoveries = n,
                            !.next_transport_retry_ms =
                                saturating_add(now, Max(h.config.transport_reconnect_backoff_ms, 200))]
             ELSE [h EXCEPT !.transport_recoveries = 0, !.transport.connected = TRUE]

step(h, now, env) ==
    LET h1 == [h EXCEPT !.status.ticks = saturating_add(@, 1)]
        h2 == IF now >= h1.next_health_log_ms
              THEN [h1 EXCEPT !.next_health_log_ms =
                        saturating_add(now, Max(h1.config.health_log_interval_ms, 500))]
              ELSE h1
        h3 == recover_transport_if_needed(h2, now)
        inbound == process_inbound(h3, now)
        bus == process_bus(inbound.host)
        h4 == poll_scheduler(bus.host, now, env)
        work == process_queue(h4, now, env)
    IN  [host |-> [work.host EXCEPT
                     !.status.inbound_frames = saturating_add(@, inbound.ret),
                     !.status.scheduler_polls = saturating_add(@, 1)],
         inbound |-> inbound.host,
         polled |-> h4,
         peak |-> work.peak,
         runs |-> work.runs]

inject_transport_frame(h, frame) == [h EXCEPT !.transport = push_inbound(@, frame)]

(***************************************************************************)
(* A queue used on its own by arbitrary clients.  Every item put into a    *)
(* group carries as payload its number in the order of that group.         *)
(***************************************************************************)
Groups == {"g1", "g2"}
GroupOrders == {<<"g1", "g2">>, <<"g2", "g1">>}
Capacities == {1, 2}
InflightLimits == {1, 2}
RetryPolicies ==
    {RetryPolicy_new(0, 1), RetryPolicy_new(1, 0), RetryPolicy_new(2, 1)}

IsGroupQueue == "capacity" \in DOMAIN queue
IsExecutionQueue == "max_inflight" \in DOMAIN queue

\* put[g]: items put into group g; delivered[g]: payloads handed out from g
QueueHistory == [put |-> [g \in Groups |-> 0], delivered |-> [g \in Groups |-> <<>>]]

PutTotal == hist.put["g1"] + hist.put["g2"]

QueueCall(q, op, value) ==
    /\ queue' = q
    /\ ret' = [op |-> op, value |-> value]
    /\ UNCHANGED <<state, clock, accepted, clears, host>>

Push(g) ==
    /\ IsGroupQueue
    /\ PutTotal < MaxQueueItems
    /\ LET q == GroupQueue_push(queue, g, hist.put[g] + 1)
       IN  /\ QueueCall(q, "push", TRUE)
           /\ hist' = IF q = queue THEN hist ELSE [hist EXCEPT !.put[g] = @ + 1]

Pop(g) ==
    /\ IsGroupQueue
    /\ LET r == GroupQueue_pop(queue, g)
       IN  /\ QueueCall(r.queue, "pop", r.ret)
           /\ hist' = IF is_some(r.ret)
                      THEN [hist EXCEPT !.delivered[g] = Append(@, unwrap(r.ret))]
                      ELSE hist

\* the client gives every item a fresh id
Enqueue(g) ==
    /\ IsExecutionQueue
    /\ PutTotal < MaxQueueItems
    /\ QueueCall(enqueue(queue, g, <<g, hist.put[g] + 1>>, hist.put[g] + 1), "enqueue", TRUE)
    /\ hist' = [hist EXCEPT !.put[g] = @ + 1]

NextReady(order) ==
    /\ IsExecutionQueue
    /\ LET r == next_ready(queue, clock, order)
       IN  /\ QueueCall(r.queue, "next_ready", r.ret)
           /\ hist' = IF is_some(r.ret)
                      THEN [hist EXCEPT !.delivered[unwrap(r.ret).group] =
                                            Append(@, unwrap(r.ret).payload)]
                      ELSE hist

Complete(i, ok) ==
    /\ IsExecutionQueue
    /\ QueueCall(complete(queue, queue.in_flight[i], ok, clock), "complete", ok)
    /\ UNCHANGED hist

QueueTick ==
    /\ clock < MaxNow
    /\ clock' = clock + 1
    /\ UNCHANGED <<state, ret, accepted, clears, hostvars>>

InitQueue ==
    /\ state = RuntimeState_new
    /\ clock = 0
    /\ ret = [op |-> "new", value |-> TRUE]
    /\ accepted = NoHistory
    /\ clears = 0
    /\ host = <<>>
    /\ queue \in {GroupQueue_new(c) : c \in Capacities}
                \cup UNION {{ExecutionQueue_new(m, policy, share) :
                                policy \in RetryPolicies,
                                share \in {n \in InflightLimits : n <= m}} :
                             m \in InflightLimits}
    /\ hist = QueueHistory

NextQueue ==
    \/ \E g \in Groups : Push(g)
    \/ \E g \in Groups : Pop(g)
    \/ \E g \in Groups : Enqueue(g)
    \/ \E order \in GroupOrders : NextReady(order)
    \/ IsExecutionQueue /\ \E i \in DOMAIN queue.in_flight, ok \in BOOLEAN : Complete(i, ok)
    \/ QueueTick

\* a GroupQueue or an ExecutionQueue and its clients
SpecQueue == InitQueue /\ [][NextQueue]_vars

(***************************************************************************)
(* The host, the frames its transport hands it and the outside it calls.   *)
(* Times are small: the retry backoff and the poll interval of the         *)
(* configurations are 0 or 1 ms, so that a retry falls inside a short run.  *)
(***************************************************************************)
HostSmall ==
    [HostConfig_default EXCEPT !.max_inflight = 1,
                               !.queue_retry_max_attempts = 1,
                               !.queue_retry_backoff_ms = 1,
                               !.scheduler_poll_interval_ms = 1]

HostConfigs ==
    {[HostSmall EXCEPT !.allowed_sources = <<"dev">>, !.max_inflight = 2],
     [HostSmall EXCEPT !.allowed_host_actions = <<>>, !.queue_retry_backoff_ms = 0],
     [HostSmall EXCEPT !.allowed_host_actions = <<"status", "bogus">>, !.dry_run = TRUE],
     [HostSmall EXCEPT !.max_inflight = 0, !.queue_retry_max_attempts = 0]}

HostTasks ==
    (<<"t1">> :> ScheduledTask(<<"t1">>, "g1", "Interval", 1, Some(1), "active"))
    @@ (<<"t2">> :> ScheduledTask(<<"t2">>, "g2", "Once", 0, Some(2), "paused"))

Env(store_ok, backend) == [store_ok |-> store_ok, backend |-> backend, order |-> <<"g1", "g2">>]
Envs == {Env(TRUE, "ok"), Env(TRUE, "err"), Env(FALSE, "ok")}

CommandPayload(action) == JsonObject([action |-> action])

\* <<source, kind, payload, has corr_id>>
HostBodies ==
    {<<"dev", "Command", CommandPayload("sync_now"), TRUE>>,
     <<"dev", "HostCommand", CommandPayload("restart"), TRUE>>,
     <<"dev", "Heartbeat", JsonNull, FALSE>>,
     <<"rogue", "Command", CommandPayload("sync_now"), TRUE>>}

\* the n-th frame handed to the host; its corr_id, when it has one, is its own
HostFrame(body, n) ==
    LET corr_id == IF body[4] THEN Some(<<"corr", n>>) ELSE None
    IN  [source |-> body[1], device_id |-> "dev", session_id |-> "g1",
         kind |-> body[2], corr_id |-> corr_id, payload |-> body[3],
         cause |-> [kind |-> body[2], tag |-> n, corr_id |-> corr_id]]

HostHistory == [injected |-> 0, peak |-> 0]

HostCall(h, op, value) ==
    /\ host' = h
    /\ ret' = [op |-> op, value |-> value]
    /\ UNCHANGED <<state, clock, accepted, clears, queue>>

InjectFrame(body) ==
    /\ hist.injected < MaxInjected
    /\ HostCall(inject_transport_frame(host, HostFrame(body, hist.injected + 1)),
                "inject_transport_frame", TRUE)
    /\ hist' = [hist EXCEPT !.injected = @ + 1]

\* run(): the loop samples now_ms(), steps, and sleeps until the next tick
Step(env) ==
    /\ host.status.ticks < MaxHostSteps
    /\ LET r == step(host, clock, env)
       IN  /\ host' = r.host
           /\ ret' = [op |-> "step", value |-> Len(r.runs)]
           /\ hist' = [hist EXCEPT !.peak = r.peak]
    /\ clock' = clock + 1
    /\ UNCHANGED <<state, accepted, clears, queue>>

InitHost ==
    /\ state = RuntimeState_new
    /\ clock = 1
    /\ ret = [op |-> "new", value |-> TRUE]
    /\ accepted = NoHistory
    /\ clears = 0
    /\ host \in {Host_new(config, HostTasks) : config \in HostConfigs}
    /\ queue = <<>>
    /\ hist = HostHistory

NextHost ==
    \/ \E body \in HostBodies : InjectFrame(body)
    \/ \E env \in Envs : Step(env)

\* a host, the peers that send it frames and drain its output, and the clock
SpecHost == InitHost /\ [][NextHost]_vars

(***************************************************************************)
(* The sandbox runs of a host over a long time: the backend fails many     *)
(* times in a row, the caller tries again while the circuit is open and    *)
(* after it has closed.  hist.streak counts the consecutive failures of    *)
(* the backend itself.                                                     *)
(***************************************************************************)
BreakerConfigs ==
    {[HostConfig_default EXCEPT !.queue_retry_backoff_ms = base] : base \in {0, 1, 7, 500}}
    \cup {[HostConfig_default EXCEPT !.dry_run = TRUE]}

BreakerTask == HostTasks[<<"t1">>]

BreakerHistory == [streak |-> 0, successes |-> 0, waits |-> 0]

circuit_open == ~host.config.dry_run /\ clock < host.backend_circuit_until

RunInSandbox(backend) ==
    /\ backend = "err" => host.backend_failures < MaxBackendFailures
    /\ backend # "err" /\ ~circuit_open => hist.successes < MaxSuccesses
    /\ LET r == run_in_sandbox(host, BreakerTask, clock, Env(TRUE, backend))
       IN  /\ host' = r.host
           /\ ret' = [op |-> "run_in_sandbox", value |-> [ok |-> r.ok, value |-> r.value]]
    /\ hist' = IF circuit_open \/ host.config.dry_run THEN hist
               ELSE IF backend = "err" THEN [hist EXCEPT !.streak = @ + 1]
               ELSE [hist EXCEPT !.streak = 0, !.successes = @ + 1]
    /\ UNCHANGED <<state, clock, accepted, clears, queue>>

\* time passes while the circuit is open: one millisecond, or until it closes
Wait(now) ==
    /\ circuit_open
    /\ now > clock
    /\ now < host.backend_circuit_until => hist.waits < MaxShortWaits
    /\ clock' = now
    /\ hist' = IF now < host.backend_circuit_until THEN [hist EXCEPT !.waits = @ + 1] ELSE hist
    /\ UNCHANGED <<state, ret, accepted, clears, host, queue>>

InitBreaker ==
    /\ state = RuntimeState_new
    /\ clock = 1
    /\ ret = [op |-> "new", value |-> TRUE]
    /\ accepted = NoHistory
    /\ clears = 0
    /\ host \in {Host_new(config, HostTasks) : config \in BreakerConfigs}
    /\ queue = <<>>
    /\ hist = BreakerHistory

NextBreaker ==
    \/ \E backend \in {"ok", "nonzero", "err"} : RunInSandbox(backend)
    \/ \E now \in {clock + 1, host.backend_circuit_until} : Wait(now)

\* a host whose scheduled tasks keep calling the sandbox
SpecBreaker == InitBreaker /\ [][NextBreaker]_vars

(***************************************************************************)
(* SwipeDetector of the touch pipeline: the origin of a gesture and the    *)
(* classification of its Up position.  Coordinates are u16 values; the     *)
(* differences are taken as i32 and cannot overflow.                       *)
(***************************************************************************)
SWIPE_MIN_HORIZONTAL_PX == 40
SWIPE_MAX_VERTICAL_PX == 30

SwipeLeft == "Left"
SwipeRight == "Right"

Abs(n) == IF n < 0 THEN 0 - n ELSE n

SwipeDetector_new == [down_x |-> None, down_y |-> None]

on_down(d, x, y) ==
    [detector |-> [down_x |-> Some(x), down_y |-> Some(y)], ret |-> None]

on_move(d, x, y) == [detector |-> d, ret |-> None]

\* variant of on_up that reads the origin without taking it
on_up_keeps_origin(d, x, y) ==
    IF is_some(d.down_x) /\ is_some(d.down_y)
    THEN LET dx == x - unwrap(d.down_x)
             dy == y - unwrap(d.down_y)
         IN  [detector |-> d,
              ret |-> IF Abs(dx) >= SWIPE_MIN_HORIZONTAL_PX /\ Abs(dy) <= SWIPE_MAX_VERTICAL_PX
                      THEN IF dx > 0 THEN Some(SwipeRight) ELSE Some(SwipeLeft)
                      ELSE None]
    ELSE [detector |-> d, ret |-> None]

on_up(d, x, y) ==
    LET taken == [down_x |-> None, down_y |-> None]
    IN  IF is_some(d.down_x) /\ is_some(d.down_y)
        THEN LET dx == x - unwrap(d.down_x)
                 dy == y - unwrap(d.down_y)
             IN  [detector |-> taken,
                  ret |-> IF Abs(dx) >= SWIPE_MIN_HORIZONTAL_PX /\ Abs(dy) <= SWIPE_MAX_VERTICAL_PX
                          THEN IF dx > 0 THEN Some(SwipeRight) ELSE Some(SwipeLeft)
                          ELSE None]
        ELSE [detector |-> taken, ret |-> None]

cancel(d) == [detector |-> [down_x |-> None, down_y |-> None], ret |-> None]

(***************************************************************************)
(* A detector fed with gestures.  The positions lie on both sides of the   *)
(* two thresholds.  hist.origin is the position of the last Down that no   *)
(* Up or Cancel has followed; every call records the origin it started     *)
(* from.                                                                   *)
(***************************************************************************)
SwipeXs == {0, 39, 40, 41, 80}
SwipeYs == {0, 30, 31, 61}

SwipeCall(r, op, x, y, origin) ==
    /\ host' = r.detector
    /\ ret' = [op |-> op, value |-> r.ret, x |-> x, y |-> y, origin |-> hist.origin]
    /\ hist' = [origin |-> origin]
    /\ UNCHANGED <<state, clock, accepted, clears, queue>>

OnDown(x, y) == SwipeCall(on_down(host, x, y), "on_down", x, y, Some(<<x, y>>))
OnMove(x, y) == SwipeCall(on_move(host, x, y), "on_move", x, y, hist.origin)
OnUp(x, y) == SwipeCall(on_up(host, x, y), "on_up", x, y, None)
OnCancel == SwipeCall(cancel(host), "cancel", 0, 0, None)

InitSwipe ==
    /\ state = RuntimeState_new
    /\ clock = 0
    /\ ret = [op |-> "new", value |-> None, x |-> 0, y |-> 0, origin |-> None]
    /\ accepted = NoHistory
    /\ clears = 0
    /\ host = SwipeDetector_new
    /\ queue = <<>>
    /\ hist = [origin |-> None]

NextSwipe ==
    \/ \E x \in SwipeXs, y \in SwipeYs : OnDown(x, y)
    \/ \E x \in SwipeXs, y \in SwipeYs : OnMove(x, y)
    \/ \E x \in SwipeXs, y \in SwipeYs : OnUp(x, y)
    \/ OnCancel

\* one swipe detector and the touch phases it is told about
SpecSwipe == InitSwipe /\ [][NextSwipe]_vars

(***************************************************************************)
(* TouchPipeline: the bounded queue of raw touch events.  Whether a raw    *)
(* position lies on the display is decided by the display module; an       *)
(* event carries that verdict as on_display.                               *)
(***************************************************************************)
TOUCH_QUEUE_CAPACITY == 32
TOUCH_EVENT_STALE_MS == 2000

TouchEventPayload(x, y, phase, on_display) ==
    [pointer_id |-> 0, phase |-> phase, x |-> x, y |-> y, on_display |-> on_display]

clamp_and_validate_touch(event) ==
    IF event.on_display THEN Some([x |-> event.x, y |-> event.y]) ELSE None

TouchPipeline_new == [queue |-> <<>>, dropped |-> 0]

\* variant of push_event that never drops
push_event_unbounded(p, raw) == [p EXCEPT !.queue = Append(@, raw)]

push_event(p, raw) ==
    LET q == IF Len(p.queue) >= TOUCH_QUEUE_CAPACITY
             THEN [p EXCEPT !.queue = Tail(@), !.dropped = saturating_add(@, 1)]
             ELSE p
    IN  [q EXCEPT !.queue = Append(@, raw)]

pop_event(p) ==
    IF p.queue = <<>> THEN [pipeline |-> p, ret |-> None]
    ELSE [pipeline |-> [p EXCEPT !.queue = Tail(@)], ret |-> Some(Head(p.queue))]

RECURSIVE push_events(_, _)
push_events(p, events) ==
    IF events = <<>> THEN p ELSE push_events(push_event(p, Head(events)), Tail(events))

\* driver: [pending |-> interrupt flag, events |-> what read_event will return]
drain_from_driver(p, driver) ==
    IF ~driver.pending /\ p.queue = <<>> THEN [pipeline |-> p, ret |-> 0]
    ELSE [pipeline |-> push_events(p, driver.events), ret |-> Len(driver.events)]

RECURSIVE next_frame(_)
next_frame(p) ==
    LET popped == pop_event(p)
    IN  IF ~is_some(popped.ret) THEN [pipeline |-> popped.pipeline, ret |-> None]
        ELSE LET event == unwrap(popped.ret)
                 point == clamp_and_validate_touch(event)
             IN  IF is_some(point)
                 THEN [pipeline |-> popped.pipeline,
                       ret |-> Some([point |-> unwrap(point), phase |-> event.phase])]
                 ELSE next_frame(popped.pipeline)

purge_stale(p, now_ms, stale_ms, last_seen_ms) ==
    IF is_some(last_seen_ms) /\ saturating_sub(now_ms, unwrap(last_seen_ms)) > stale_ms
    THEN [pipeline |-> [p EXCEPT !.queue = <<>>], last_seen_ms |-> None]
    ELSE [pipeline |-> p, last_seen_ms |-> last_seen_ms]

(***************************************************************************)
(* A pipeline that is filled beyond its capacity.  The events are numbered *)
(* in the order they are pushed; every third one lies off the display.     *)
(* Every call records the pipeline it started from.                        *)
(***************************************************************************)
TouchEvent(n) == TouchEventPayload(n, n, "Move", n % 3 # 0)

MaxTouchEvents == TOUCH_QUEUE_CAPACITY + ExtraTouchEvents

RECURSIVE TouchEvents(_, _)
TouchEvents(first, count) ==
    IF count = 0 THEN <<>> ELSE <<TouchEvent(first)>> \o TouchEvents(first + 1, count - 1)

TouchCall(p, op, value, pushed) ==
    /\ host' = p
    /\ ret' = [op |-> op, value |-> value, before |-> host]
    /\ hist' = [pushed |-> hist.pushed + pushed]
    /\ UNCHANGED <<state, clock, accepted, clears, queue>>

PushEvent ==
    /\ hist.pushed < MaxTouchEvents
    /\ TouchCall(push_event(host, TouchEvent(hist.pushed + 1)), "push_event",
                 TouchEvent(hist.pushed + 1), 1)

DrainFromDriver(pending, count) ==
    /\ hist.pushed + count <= MaxTouchEvents
    /\ LET driver == [pending |-> pending, events |-> TouchEvents(hist.pushed + 1, count)]
           r == drain_from_driver(host, driver)
       IN  TouchCall(r.pipeline, "drain_from_driver", r.ret, r.ret)

NextFrame ==
    LET r == next_frame(host)
    IN  TouchCall(r.pipeline, "next_frame", r.ret, 0)

PurgeStale(now_ms, last_seen_ms) ==
    LET r == purge_stale(host, now_ms, TOUCH_EVENT_STALE_MS, last_seen_ms)
    IN  TouchCall(r.pipeline, "purge_stale", r.last_seen_ms, 0)

InitTouch ==
    /\ state = RuntimeState_new
    /\ clock = 0
    /\ ret = [op |-> "new", value |-> None, before |-> TouchPipeline_new]
    /\ accepted = NoHistory
    /\ clears = 0
    /\ host = TouchPipeline_new
    /\ queue = <<>>
    /\ hist = [pushed |-> 0]

NextTouch ==
    \/ PushEvent
    \/ \E pending \in BOOLEAN, count \in 0..2 : DrainFromDriver(pending, count)
    \/ NextFrame
    \/ \E now_ms \in {TOUCH_EVENT_STALE_MS, TOUCH_EVENT_STALE_MS + 1},
          last_seen_ms \in {None, Some(0)} : PurgeStale(now_ms, last_seen_ms)

\* one touch pipeline, the driver that feeds it and the loop that drains it
SpecTouch == InitTouch /\ [][NextTouch]_vars

(***************************************************************************)
(* InMemoryTransport of the device: two bounded queues of frames, the      *)
(* connection flag and the scripted outcome of reconnect.                  *)
(***************************************************************************)
DEFAULT_TRANSPORT_DEPTH == 128

TransportStats_new ==
    [inbound_frames |-> 0, outbound_frames |-> 0, dropped_inbound |-> 0, dropped_outbound |-> 0]

with_queue_depth(max_inbound, max_outbound) ==
    [inbound |-> <<>>,
     outbound |-> <<>>,
     connected |-> FALSE,
     max_inbound |-> max_inbound,
     max_outbound |-> max_outbound,
     stats |-> TransportStats_new,
     reconnect_attempts |-> 0,
     reconnect_failures_remaining |-> 0]

InMemoryTransport_new == with_queue_depth(DEFAULT_TRANSPORT_DEPTH, DEFAULT_TRANSPORT_DEPTH)

\* variant of push_inbound that drops the arriving frame of a full queue
InMemoryTransport_push_inbound_drop_newest(t, frame) ==
    IF Len(t.inbound) >= t.max_inbound
    THEN [t EXCEPT !.stats.dropped_inbound = saturating_add(@, 1)]
    ELSE [t EXCEPT !.inbound = Append(@, frame)]

InMemoryTransport_push_inbound(t, frame) ==
    LET u == IF Len(t.inbound) >= t.max_inbound
             THEN [t EXCEPT !.inbound = Tail(@),
                            !.stats.dropped_inbound = saturating_add(@, 1)]
             ELSE t
    IN  [u EXCEPT !.inbound = Append(@, frame)]

drain_outbound(t) == [transport |-> [t EXCEPT !.outbound = <<>>], ret |-> t.outbound]

set_reconnect_failures_until_success(t, failures) ==
    [t EXCEPT !.reconnect_failures_remaining = failures]

is_connected(t) == t.connected

set_connected(t, connected) == [t EXCEPT !.connected = connected]

\* variant: a successful attempt is reported but the flag is not set
reconnect_unlatched(t, attempt, now_ms) ==
    LET u == [t EXCEPT !.reconnect_attempts = saturating_add(@, 1)]
    IN  IF u.reconnect_failures_remaining # 0
        THEN [transport |-> [u EXCEPT !.reconnect_failures_remaining = saturating_sub(@, 1)],
              ret |-> FALSE]
        ELSE [transport |-> u, ret |-> TRUE]

reconnect(t, attempt, now_ms) ==
    LET u == [t EXCEPT !.reconnect_attempts = saturating_add(@, 1)]
    IN  IF u.reconnect_failures_remaining # 0
        THEN [transport |-> [u EXCEPT !.reconnect_failures_remaining = saturating_sub(@, 1)],
              ret |-> FALSE]
        ELSE [transport |-> [u EXCEPT !.connected = TRUE], ret |-> TRUE]

InMemoryTransport_poll_frames(t) ==
    [transport |-> [t EXCEPT !.inbound = <<>>,
                             !.stats.inbound_frames = saturating_add(@, Len(t.inbound))],
     ret |-> t.inbound]

InMemoryTransport_send_frame(t, frame) ==
    LET u == IF Len(t.outbound) >= t.max_outbound
             THEN [t EXCEPT !.outbound = Tail(@),
                            !.stats.dropped_outbound = saturating_add(@, 1)]
             ELSE t
    IN  [u EXCEPT !.stats.outbound_frames = saturating_add(@, 1),
                  !.outbound = Append(@, frame)]

(***************************************************************************)
(* A transport of small depth between a peer that pushes and drains and a  *)
(* device that polls and sends.  The frames of each direction are numbered *)
(* in arrival order; every call records the transport it started from.     *)
(***************************************************************************)
BusDepths == 1..MaxBusDepth

BusFrame(n) == [seq |-> n]

BusCall(t, op, value, arrived, submitted) ==
    /\ queue' = t
    /\ ret' = [op |-> op, value |-> value, before |-> queue]
    /\ hist' = [arrived |-> hist.arrived + arrived, submitted |-> hist.submitted + submitted]
    /\ UNCHANGED <<state, clock, accepted, clears, host>>

PushInbound ==
    /\ hist.arrived < MaxBusFrames
    /\ BusCall(InMemoryTransport_push_inbound(queue, BusFrame(hist.arrived + 1)),
               "push_inbound", BusFrame(hist.arrived + 1), 1, 0)

SendFrame ==
    /\ hist.submitted < MaxBusFrames
    /\ BusCall(InMemoryTransport_send_frame(queue, BusFrame(hist.submitted + 1)),
               "send_frame", BusFrame(hist.submitted + 1), 0, 1)

PollFrames ==
    LET r == InMemoryTransport_poll_frames(queue)
    IN  BusCall(r.transport, "poll_frames", r.ret, 0, 0)

DrainOutbound ==
    LET r == drain_outbound(queue)
    IN  BusCall(r.transport, "drain_outbound", r.ret, 0, 0)

InitBus ==
    /\ state = RuntimeState_new
    /\ clock = 0
    /\ queue \in {with_queue_depth(i, o) : i \in BusDepths, o \in BusDepths}
    /\ ret = [op |-> "new", value |-> None, before |-> queue]
    /\ accepted = NoHistory
    /\ clears = 0
    /\ host = <<>>
    /\ hist = [arrived |-> 0, submitted |-> 0]

NextBus ==
    \/ PushInbound
    \/ SendFrame
    \/ PollFrames
    \/ DrainOutbound

\* one in-memory transport and the two sides that use it
SpecBus == InitBus /\ [][NextBus]_vars

(***************************************************************************)
(* DeviceEventLoop: one step of the device.  The scene's hit test belongs  *)
(* to the ui module: the Paired scene has one button, at TouchTarget,      *)
(* which asks for the status.                                              *)
(***************************************************************************)
DEFAULT_RENDER_INTERVAL_MS == 250
DEFAULT_OFFLINE_TIMEOUT_MS == 15000

ActionEmitCommand(action) ==
    [type |-> "EmitCommand", message |-> "", corr_id |-> None, action |-> action]

scene_of(s) ==
    CASE s.mode.tag = "Booting" -> "Boot"
      [] s.mode.tag = "Connected" -> "Paired"
      [] s.mode.tag = "Offline" -> "Offline"
      [] s.mode.tag = "Error" -> "Error"
      [] s.mode.tag = "SafeMode" -> "Settings"

\* RuntimeState::scene also stores the scene in the state's cache
scene(s) == [state |-> [s EXCEPT !.scene_cache = scene_of(s)], ret |-> scene_of(s)]

TouchTarget == [x |-> 180, y |-> 150]

action_for_touch(sc, point) ==
    IF sc = "Paired" /\ point = TouchTarget THEN Some("status_get") ELSE None

process_touch(s, point) ==
    LET sc == scene(s)
        action == action_for_touch(sc.ret, point)
    IN  [state |-> sc.state,
         ret |-> IF is_some(action) THEN ActionEmitCommand(unwrap(action)) ELSE ActionNone]

apply_touch_event(s, event) ==
    IF event.phase \in {"Up", "Cancel"} THEN [state |-> s, ret |-> ActionNone]
    ELSE LET point == clamp_and_validate_touch(event)
         IN  IF is_some(point) THEN process_touch(s, unwrap(point))
             ELSE [state |-> s, ret |-> ActionNone]

LoopOutput_new ==
    [outbound |-> <<>>, ui_messages |-> <<>>, rendered |-> FALSE,
     offline_entered |-> FALSE, in_safe_mode |-> FALSE]

EventLoopConfig_default ==
    [render_interval_ms |-> DEFAULT_RENDER_INTERVAL_MS,
     offline_timeout_ms |-> DEFAULT_OFFLINE_TIMEOUT_MS]

DeviceEventLoop_new(config) ==
    [config |-> config, last_render_ms |-> None, last_touch_ms |-> None,
     scene_cache |-> None]

NullRenderer_new == [current_scene |-> None]

render(renderer, s) ==
    LET target == scene(s)
    IN  [renderer |-> [renderer EXCEPT !.current_scene = Some(target.ret)],
         state |-> target.state,
         ret |-> renderer.current_scene # Some(target.ret)]

\* variant of process_action whose report holds the latest message only
process_action_overwrites(s, action, out, now_ms) ==
    CASE action.type = "None" -> [state |-> s, out |-> out, dirty |-> FALSE]
      [] action.type = "EmitAck" ->
            [state |-> s, out |-> [out EXCEPT !.ui_messages = <<action.message>>],
             dirty |-> FALSE]
      [] action.type = "EmitCommand" ->
            LET cmd == emit_command(s, action.action, now_ms)
            IN  [state |-> cmd.state,
                 out |-> [out EXCEPT !.outbound = <<cmd.ret>>,
                                     !.ui_messages = <<"emit_command">>],
                 dirty |-> TRUE]
      [] action.type = "RaiseUiState" ->
            [state |-> s, out |-> [out EXCEPT !.ui_messages = <<action.message>>],
             dirty |-> TRUE]

process_action(s, action, out, now_ms) ==
    CASE action.type = "None" -> [state |-> s, out |-> out, dirty |-> FALSE]
      [] action.type = "EmitAck" ->
            [state |-> s, out |-> [out EXCEPT !.ui_messages = Append(@, action.message)],
             dirty |-> FALSE]
      [] action.type = "EmitCommand" ->
            LET cmd == emit_command(s, action.action, now_ms)
            IN  [state |-> cmd.state,
                 out |-> [out EXCEPT !.outbound = Append(@, cmd.ret),
                                     !.ui_messages = Append(@, "emit_command")],
                 dirty |-> TRUE]
      [] action.type = "RaiseUiState" ->
            [state |-> s, out |-> [out EXCEPT !.ui_messages = Append(@, action.message)],
             dirty |-> TRUE]

\* the loop over the inbound frames; acc holds state, out, dirty and the
\* actions returned so far
RECURSIVE apply_inbound(_, _, _)
apply_inbound(acc, msgs, now_ms) ==
    IF msgs = <<>> THEN acc
    ELSE LET applied == apply_transport_message(acc.state, Head(msgs), now_ms)
             done == process_action(applied.state, applied.ret, acc.out, now_ms)
         IN  apply_inbound([state |-> done.state, out |-> done.out,
                            dirty |-> acc.dirty \/ done.dirty,
                            actions |-> Append(acc.actions, applied.ret)],
                           Tail(msgs), now_ms)

\* the loop over the frames of the touch pipeline
RECURSIVE apply_touch_frames(_, _, _, _)
apply_touch_frames(acc, pipeline, last_touch_ms, now_ms) ==
    LET frame == next_frame(pipeline)
    IN  IF ~is_some(frame.ret)
        THEN [acc |-> acc, pipeline |-> frame.pipeline, last_touch_ms |-> last_touch_ms]
        ELSE LET event == unwrap(frame.ret)
                 payload == TouchEventPayload(event.point.x, event.point.y, event.phase, TRUE)
                 applied == apply_touch_event(acc.state, payload)
                 done == process_action(applied.state, applied.ret, acc.out, now_ms)
             IN  apply_touch_frames([state |-> done.state, out |-> done.out,
                                     dirty |-> acc.dirty \/ done.dirty,
                                     actions |-> Append(acc.actions, applied.ret)],
                                    frame.pipeline, Some(now_ms), now_ms)

\* touch_driver: None, or Some([pending, events]).  log records what each
\* sub-step returned: the actions of the frames and touch events in order,
\* and the results of the offline and the safety check with the states they
\* were called in.
step_with_touch_driver(loop, s, touch_pipeline, touch_driver, inbound, now_ms, renderer) ==
    LET finish(touched, stale, locked, target_scene) ==
            LET out1 == IF stale.ret
                        THEN [touched.acc.out EXCEPT
                                !.offline_entered = TRUE,
                                !.ui_messages = Append(@, "offline_timeout")]
                        ELSE touched.acc.out
                out2 == IF locked.ret
                        THEN [out1 EXCEPT !.in_safe_mode = TRUE,
                                          !.ui_messages = Append(@, "safety_lockdown")]
                        ELSE out1
                frame_dirty == touched.acc.dirty \/ stale.ret \/ locked.ret
                force_render ==
                    \/ ~is_some(loop.last_render_ms)
                    \/ saturating_sub(now_ms, unwrap(loop.last_render_ms))
                            >= loop.config.render_interval_ms
                    \/ loop.scene_cache # Some(target_scene.ret)
                    \/ frame_dirty
                rendered == render(renderer, target_scene.state)
            IN  [loop |-> [loop EXCEPT
                            !.last_touch_ms = touched.last_touch_ms,
                            !.last_render_ms = IF force_render THEN Some(now_ms) ELSE @,
                            !.scene_cache = IF force_render \/ out2.in_safe_mode
                                            THEN Some(target_scene.ret) ELSE @],
                 state |-> target_scene.state,
                 pipeline |-> touched.pipeline,
                 renderer |-> IF force_render THEN rendered.renderer ELSE renderer,
                 out |-> IF force_render THEN [out2 EXCEPT !.rendered = rendered.ret] ELSE out2,
                 log |-> [actions |-> touched.acc.actions,
                          before_offline |-> touched.acc.state, offline |-> stale.ret,
                          before_lockdown |-> stale.state, lockdown |-> locked.ret]]
        \* the steps in the order of the code, each handed the results so far
        target(touched, stale, locked) ==
            finish(touched, stale, locked, scene(locked.state))
        lockdown(touched, stale) ==
            target(touched, stale, safety_lockdown_check(stale.state))
        offline(touched) ==
            lockdown(touched, mark_offline_if_stale(touched.acc.state, now_ms,
                                                    loop.config.offline_timeout_ms))
        touch(framed, drained, purged) ==
            offline(apply_touch_frames([framed EXCEPT !.dirty = @ \/ drained.ret > 0],
                                       purged.pipeline, purged.last_seen_ms, now_ms))
        purge(framed, drained) ==
            touch(framed, drained,
                  purge_stale(drained.pipeline, now_ms, TOUCH_EVENT_STALE_MS,
                              loop.last_touch_ms))
        drain(framed) ==
            purge(framed, IF is_some(touch_driver)
                          THEN drain_from_driver(touch_pipeline, unwrap(touch_driver))
                          ELSE [pipeline |-> touch_pipeline, ret |-> 0])
    IN  drain(apply_inbound([state |-> s, out |-> LoopOutput_new, dirty |-> FALSE,
                             actions |-> <<>>], inbound, now_ms))

(***************************************************************************)
(* reconnect_backoff_ms of the device crate.                               *)
(***************************************************************************)
\* variant: the exponent is not capped
reconnect_backoff_ms_uncapped(attempt) ==
    LET a == Max(attempt, 1)
    IN  Min(500 * Pow2(a - 1), 30000)

reconnect_backoff_ms(attempt) ==
    LET a == Max(attempt, 1)
    IN  Min(500 * Pow2(Min(a - 1, 5)), 30000)

(***************************************************************************)
(* The step of the device with its transport bus.  The loop keeps, besides *)
(* the fields of DeviceEventLoop, the time of the next reconnect attempt   *)
(* and the number of consecutive failed attempts; its configuration has    *)
(* stale_inflight_ms besides the fields of EventLoopConfig.                *)
(***************************************************************************)
TransportLoopConfig(config, stale_inflight_ms) ==
    [render_interval_ms |-> config.render_interval_ms,
     offline_timeout_ms |-> config.offline_timeout_ms,
     stale_inflight_ms |-> stale_inflight_ms]

TransportLoop_new(config) ==
    [config |-> config, last_render_ms |-> None, last_touch_ms |-> None,
     scene_cache |-> None, next_reconnect_at |-> 0, reconnect_attempt |-> 0]

RECURSIVE send_frames(_, _)
send_frames(transport, frames) ==
    IF frames = <<>> THEN transport
    ELSE send_frames(InMemoryTransport_send_frame(transport, Head(frames)), Tail(frames))

\* sub-steps 1 to 6 on the polled frames, then the frames of the report are
\* sent and the transport is looked after
step_with_transport_driver(loop, s, pipeline, transport, touch_driver, now_ms, renderer) ==
    LET finish(inner, reclaimed, out1, sent, tried, request) ==
            LET due == ~is_connected(sent) /\ now_ms >= inner.loop.next_reconnect_at
                attempt == saturating_add(inner.loop.reconnect_attempt, 1)
                log == [actions |-> inner.log.actions,
                        before_offline |-> inner.log.before_offline,
                        offline |-> inner.log.offline,
                        before_lockdown |-> inner.log.before_lockdown,
                        lockdown |-> inner.log.lockdown,
                        before_reclaim |-> inner.state, reclaimed |-> reclaimed.ret,
                        due |-> due, reconnected |-> due /\ tried.ret]
                report(out, connected) ==
                    [outbound |-> out.outbound, ui_messages |-> out.ui_messages,
                     rendered |-> out.rendered, offline_entered |-> out.offline_entered,
                     in_safe_mode |-> out.in_safe_mode,
                     stale_inflight_reclaimed |-> reclaimed.ret,
                     transport_connected |-> connected]
            IN  IF ~due
                THEN [loop |-> inner.loop, state |-> reclaimed.state,
                      pipeline |-> inner.pipeline, transport |-> sent,
                      renderer |-> inner.renderer,
                      out |-> report(out1, is_connected(sent)), log |-> log]
                ELSE IF tried.ret
                THEN [loop |-> [inner.loop EXCEPT !.reconnect_attempt = 0],
                      state |-> request.state, pipeline |-> inner.pipeline,
                      transport |-> InMemoryTransport_send_frame(tried.transport, request.ret),
                      renderer |-> inner.renderer,
                      out |-> report([out1 EXCEPT
                                        !.outbound = Append(@, request.ret),
                                        !.ui_messages =
                                            Append(@, "transport_reconnect_success")],
                                     TRUE),
                      log |-> log]
                ELSE [loop |-> [inner.loop EXCEPT
                                    !.reconnect_attempt = attempt,
                                    !.next_reconnect_at =
                                        saturating_add(now_ms, reconnect_backoff_ms(attempt))],
                      state |-> reclaimed.state, pipeline |-> inner.pipeline,
                      transport |-> tried.transport, renderer |-> inner.renderer,
                      out |-> report(out1, FALSE), log |-> log]
        \* the steps in the order of the specification, each handed the results
        \* so far
        recover(inner, reclaimed, out1, sent) ==
            finish(inner, reclaimed, out1, sent,
                   reconnect(sent, saturating_add(inner.loop.reconnect_attempt, 1), now_ms),
                   emit_snapshot_request(reclaimed.state, now_ms))
        send(polled, inner, reclaimed, out1) ==
            recover(inner, reclaimed, out1, send_frames(polled.transport, out1.outbound))
        reclaim(polled, inner, reclaimed) ==
            send(polled, inner, reclaimed,
                 IF reclaimed.ret > 0
                 THEN [inner.out EXCEPT
                        !.ui_messages = Append(@, "stale_inflight_reclaimed")]
                 ELSE inner.out)
        inbound(polled, inner) ==
            reclaim(polled, inner,
                    reclaim_stale_inflight(inner.state, now_ms, loop.config.stale_inflight_ms))
        poll(polled) ==
            inbound(polled, step_with_touch_driver(loop, s, pipeline, touch_driver,
                                                   polled.ret, now_ms, renderer))
    IN  poll(InMemoryTransport_poll_frames(transport))

step_with_transport(loop, s, touch_pipeline, transport, now_ms, renderer) ==
    step_with_transport_driver(loop, s, touch_pipeline, transport, None, now_ms, renderer)

(***************************************************************************)
(* A device, its touch pipeline and its transport.  The peer pushes frames *)
(* (numbered in arrival order) and may start with a flood of frames of an  *)
(* unlisted source; fingers touch the display; the link may drop.  hist    *)
(* counts these inputs and keeps, from what the transport shows, the       *)
(* number of steps at which a reconnect was due (due), the consecutive     *)
(* failed attempts (fails) and the time of the last one (failed_at).       *)
(***************************************************************************)
LoopConfigs ==
    {TransportLoopConfig([EventLoopConfig_default EXCEPT !.offline_timeout_ms = 0], 1),
     TransportLoopConfig(EventLoopConfig_default, 2)}

LoopBodies ==
    {<<"host", <<"HelloAck", None, JsonNull>>>>,
     <<"host", <<"CommandAck", Some(<<"corr", 1>>), JsonNull>>>>,
     <<"evil", <<"Heartbeat", None, JsonNull>>>>}

TouchInputs ==
    {TouchEventPayload(TouchTarget.x, TouchTarget.y, "Down", TRUE),
     TouchEventPayload(TouchTarget.x, TouchTarget.y, "Down", FALSE)}

RECURSIVE push_all(_, _)
push_all(transport, frames) ==
    IF frames = <<>> THEN transport
    ELSE push_all(InMemoryTransport_push_inbound(transport, Head(frames)), Tail(frames))

LoopHistory ==
    [arrived |-> 0, touched |-> 0, drops |-> 0, due |-> 0, fails |-> 0, failed_at |-> 0]

\* the earliest time of the next reconnect attempt, as the history has it
Backoff(attempt) ==
    CASE attempt = 1 -> 500
      [] attempt = 2 -> 1000
      [] attempt = 3 -> 2000
      [] attempt = 4 -> 4000
      [] attempt = 5 -> 8000
      [] attempt >= 6 -> 16000

next_attempt_at == IF hist.fails = 0 THEN 0 ELSE hist.failed_at + Backoff(hist.fails)

Arrive(source, body) ==
    /\ hist.arrived < MaxLoopFrames
    /\ LET n == hist.arrived + 1
           frame == Frame(n, source, n, body, <<None, None>>)
       IN  queue' = InMemoryTransport_push_inbound(queue, frame)
    /\ ret' = [op |-> "push_inbound"]
    /\ hist' = [hist EXCEPT !.arrived = @ + 1]
    /\ UNCHANGED <<state, clock, accepted, clears, host>>

ArriveFlood ==
    /\ hist.arrived = 0
    /\ LET n == hist.arrived + 1
           frame == Frame(n, "evil", n, <<"Heartbeat", None, JsonNull>>, <<None, None>>)
       IN  queue' = push_all(queue, [i \in 1..(DEFAULT_SAFETY_RETRIES - 1) |-> frame])
    /\ ret' = [op |-> "push_inbound"]
    /\ hist' = [hist EXCEPT !.arrived = @ + 1]
    /\ UNCHANGED <<state, clock, accepted, clears, host>>

Touch(event) ==
    /\ hist.touched < MaxLoopTouches
    /\ host' = [host EXCEPT !.pipeline = push_event(@, event)]
    /\ ret' = [op |-> "push_event"]
    /\ hist' = [hist EXCEPT !.touched = @ + 1]
    /\ UNCHANGED <<state, clock, accepted, clears, queue>>

LinkDrop(failures) ==
    /\ is_connected(queue)
    /\ hist.drops < MaxLinkDrops
    /\ queue' = set_reconnect_failures_until_success(set_connected(queue, FALSE), failures)
    /\ ret' = [op |-> "set_connected"]
    /\ hist' = [hist EXCEPT !.drops = @ + 1]
    /\ UNCHANGED <<state, clock, accepted, clears, host>>

LoopStep(now) ==
    /\ now >= clock
    /\ LET was_due == ~is_connected(queue) /\ now >= next_attempt_at
           stepped(r, failed) ==
               /\ state' = r.state
               /\ queue' = r.transport
               /\ host' = [loop |-> r.loop, pipeline |-> r.pipeline, renderer |-> r.renderer]
               /\ ret' = [op |-> "step", now |-> now, out |-> r.out, log |-> r.log,
                          not_before |-> next_attempt_at,
                          before |-> [state |-> state, transport |-> queue,
                                      loop |-> host.loop]]
               /\ hist' = [hist EXCEPT
                            !.due = IF was_due THEN @ + 1 ELSE @,
                            !.fails = IF is_connected(r.transport) THEN 0
                                      ELSE IF failed THEN @ + 1 ELSE @,
                            !.failed_at = IF failed THEN now ELSE @]
           failure(r) ==
               stepped(r, /\ ~is_connected(r.transport)
                          /\ r.transport.reconnect_attempts > queue.reconnect_attempts)
       IN  failure(step_with_transport(host.loop, state, host.pipeline, queue, now,
                                       host.renderer))
    /\ clock' = now
    /\ UNCHANGED <<accepted, clears>>

InitLoop ==
    /\ state = with_host_allowlist(<<"host">>)
    /\ clock = 0
    /\ ret = [op |-> "new"]
    /\ accepted = NoHistory
    /\ clears = 0
    /\ host \in {[loop |-> TransportLoop_new(config), pipeline |-> TouchPipeline_new,
                  renderer |-> NullRenderer_new] : config \in LoopConfigs}
    /\ queue \in {set_reconnect_failures_until_success(InMemoryTransport_new, n) :
                        n \in {0, 1}}
    /\ hist = LoopHistory

NextLoop ==
    \/ \E b \in LoopBodies : Arrive(b[1], b[2])
    \/ ArriveFlood
    \/ \E event \in TouchInputs : Touch(event)
    \/ clock < MaxLoopNow /\ LoopStep(clock + 1)

\* the device stepping once per tick while frames arrive and the display is
\* touched
SpecLoop == InitLoop /\ [][NextLoop]_vars

InitReconnect ==
    /\ state = RuntimeState_new
    /\ clock = 0
    /\ ret = [op |-> "new"]
    /\ accepted = NoHistory
    /\ clears = 0
    /\ host = [loop |-> TransportLoop_new(TransportLoopConfig(EventLoopConfig_default, 1)),
               pipeline |-> TouchPipeline_new, renderer |-> NullRenderer_new]
    /\ queue \in {set_reconnect_failures_until_success(InMemoryTransport_new, n) :
                        n \in 0..MaxReconnectFailures}
    /\ hist = LoopHistory

NextReconnect ==
    \/ \E failures \in {0, 1} : LinkDrop(failures)
    \/ \E now \in {clock, host.loop.next_reconnect_at - 1, host.loop.next_reconnect_at} :
            LoopStep(now)

\* a device whose link is down for a long time: the steps come before, at and
\* after the times the reconnect attempts are due
SpecReconnect == InitReconnect /\ [][NextReconnect]_vars

(***************************************************************************)
(* The ledger of a session: the device emits commands and snapshot         *)
(* requests while the host acknowledges and reports.  hist keeps the       *)
(* corr_ids of the commands in the order they were issued.                 *)
(***************************************************************************)
\* the next reply of the host: an acknowledgement or a result for any of the
\* corr_ids, or for none
LedgerReplies(s) ==
    {Frame(s.last_seq + 1, "host", s.last_seq + 1, <<kind, c, JsonNull>>, <<None, Some(0)>>) :
        kind \in {"CommandAck", "CommandResult"},
        c \in {None} \cup {Some(<<"corr", n>>) : n \in 1..MaxLedgerSeq}}

IssueCommand ==
    /\ state.outbound_seq < MaxLedgerSeq
    /\ LET r == emit_command(state, "status_get", clock)
       IN  /\ Call(r, "emit_command")
           /\ hist' = [hist EXCEPT !.issued = Append(@, unwrap(r.ret.corr_id))]
    /\ UNCHANGED <<clock, accepted, clears, host, queue>>

RequestSnapshot ==
    /\ state.outbound_seq < MaxLedgerSeq
    /\ Call(emit_snapshot_request(state, clock), "emit_snapshot_request")
    /\ UNCHANGED <<clock, accepted, clears, hostvars>>

ReceiveLedgerReply ==
    /\ state.last_seq < MaxLedgerReplies
    /\ \E msg \in LedgerReplies(state) : Receive(msg)

InitLedger ==
    /\ state = RuntimeState_new
    /\ clock = 0
    /\ ret = [op |-> "new", value |-> TRUE]
    /\ accepted = NoHistory
    /\ clears = 0
    /\ host = <<>>
    /\ queue = <<>>
    /\ hist = [issued |-> <<>>]

NextLedger ==
    \/ IssueCommand
    \/ RequestSnapshot
    \/ ReceiveLedgerReply
    \/ Tick

\* the device issuing commands while the host acknowledges them
SpecLedger == InitLedger /\ [][NextLedger]_vars

(***************************************************************************)
(* A host stepped at times chosen by its caller, the first step at 0 or    *)
(* later and every further step later than the one before.  hist keeps the *)
(* number of steps and the times of the steps that asked the store for the *)
(* due tasks.                                                              *)
(***************************************************************************)
PollConfigs ==
    {[HostSmall EXCEPT !.scheduler_poll_interval_ms = 2],
     [HostSmall EXCEPT !.scheduler_poll_interval_ms = 3, !.dry_run = TRUE]}

PollStep(env, now) ==
    /\ now <= MaxPollNow
    /\ hist.steps = 0 \/ now > clock
    /\ LET stepped(r) ==
               /\ host' = r.host
               /\ ret' = [op |-> "step", value |-> Len(r.runs)]
               /\ hist' = [steps |-> hist.steps + 1,
                           polls |-> IF /\ poll_due(r.inbound, now)
                                        /\ r.polled.last_scheduler_ms = now
                                     THEN Append(hist.polls, now) ELSE hist.polls]
       IN  stepped(step(host, now, env))
    /\ clock' = now
    /\ UNCHANGED <<state, accepted, clears, queue>>

InitPoll ==
    /\ state = RuntimeState_new
    /\ clock = 0
    /\ ret = [op |-> "new", value |-> TRUE]
    /\ accepted = NoHistory
    /\ clears = 0
    /\ host \in {Host_new(config, HostTasks) : config \in PollConfigs}
    /\ queue = <<>>
    /\ hist = [steps |-> 0, polls |-> <<>>]

NextPoll == \E env \in Envs, now \in clock..(clock + 2) : PollStep(env, now)

\* a host polling its scheduler as its caller steps it
SpecPoll == InitPoll /\ [][NextPoll]_vars

(***************************************************************************)
(* A host whose link drops.  Its caller steps it at advancing times, now   *)
(* and then just before or at the time of the next retry.  hist keeps, for *)
(* the time the link has been down, the times of the steps that attempted  *)
(* a recovery and the number of steps that did not.  The link does not     *)
(* drop in the last 700 ms of a run.                                       *)
(***************************************************************************)
RecoverConfigs ==
    {[HostSmall EXCEPT !.transport_reconnect_backoff_ms = 0],
     [HostSmall EXCEPT !.transport_reconnect_backoff_ms = 300]}

set_transport_connected(h, connected) == [h EXCEPT !.transport.connected = connected]

HostLinkDrop ==
    /\ host.transport.connected
    /\ hist.drops < MaxHostLinkDrops
    /\ clock + 700 <= MaxRecoverNow
    /\ host' = set_transport_connected(host, FALSE)
    /\ ret' = [op |-> "set_transport_connected"]
    /\ hist' = [drops |-> hist.drops + 1, attempts |-> <<>>, skipped |-> 0]
    /\ UNCHANGED <<state, clock, accepted, clears, queue>>

RecoverStep(now) ==
    /\ now > clock
    /\ now <= MaxRecoverNow
    /\ LET stepped(after, attempted) ==
               /\ host' = after
               /\ ret' = [op |-> "step", now |-> now, attempted |-> attempted,
                          before |-> [connected |-> host.transport.connected,
                                      retry_at |-> host.next_transport_retry_ms]]
               /\ hist' = IF host.transport.connected THEN hist
                          ELSE IF attempted
                          THEN [hist EXCEPT !.attempts = Append(@, now)]
                          ELSE [hist EXCEPT !.skipped = @ + 1]
           attempt(after) ==
               stepped(after, \/ after.transport_recoveries # host.transport_recoveries
                              \/ after.transport.connected # host.transport.connected)
       IN  attempt(step(host, now, Env(TRUE, "ok")).host)
    /\ clock' = now
    /\ UNCHANGED <<state, accepted, clears, queue>>

InitRecover ==
    /\ state = RuntimeState_new
    /\ clock = 0
    /\ ret = [op |-> "new"]
    /\ accepted = NoHistory
    /\ clears = 0
    /\ host \in {Host_new(config, <<>>) : config \in RecoverConfigs}
    /\ queue = <<>>
    /\ hist = [drops |-> 0, attempts |-> <<>>, skipped |-> 0]

\* the times the caller may step the host at next
RecoverTimes ==
    {now \in {clock + 100, clock + 200, host.next_transport_retry_ms - 1,
              host.next_transport_retry_ms} : now > clock /\ now <= MaxRecoverNow}

RecoverSteps == \E now \in RecoverTimes : RecoverStep(now)

\* the steps of the host are the transitions on which the time advances
TimeAdvances == \E now \in RecoverTimes : clock' = now

NextRecover ==
    \/ HostLinkDrop
    \/ RecoverSteps

\* a host whose caller goes on stepping it, as run() does, while its link
\* drops
SpecRecover == InitRecover /\ [][NextRecover]_vars /\ WF_clock(TimeAdvances)

(***************************************************************************)
(* The touch interrupt bridge of the ESP driver (drivers.rs): a deque      *)
(* behind a mutex, filled by the interrupt handler and emptied by          *)
(* read_event.  Events are numbered in the order the handler sees them.    *)
(* queue is the shared deque; host holds the owner of the mutex and the    *)
(* position of the producer and of the consumer; hist keeps the number of  *)
(* events raised, the events read and the events lost.  The driver's own   *)
(* deque is never pushed to (it is only cleared and popped), so it stays   *)
(* empty.                                                                  *)
(***************************************************************************)
IRQ_QUEUE_DEPTH == 64

push_from_isr_drop_newest(q, event) ==
    IF Len(q) >= IRQ_QUEUE_DEPTH THEN q ELSE Append(q, event)

\* Cst816IrqQueue::push_from_isr, the body run while the lock is held
push_from_isr(q, event) ==
    Append(IF Len(q) >= IRQ_QUEUE_DEPTH THEN Tail(q) ELSE q, event)

\* cst816_irq_handler, the body run while the lock is held
cst816_irq_handler(q, event) ==
    Append(IF Len(q) >= IRQ_QUEUE_DEPTH THEN Tail(q) ELSE q, event)

\* Cst816IrqQueue::take_next, the body run while the lock is held
take_next(q) ==
    IF q = <<>> THEN [queue |-> q, ret |-> None]
    ELSE [queue |-> Tail(q), ret |-> Some(Head(q))]

\* the first statement of read_event: nothing to read when both deques are empty
read_event_is_empty(q, local) == q = <<>> /\ local = <<>>

\* the second statement of read_event: the bridge first, then the driver's own deque
read_event_take(q, local) ==
    LET taken == take_next(q)
    IN  IF taken.ret # None THEN [queue |-> taken.queue, local |-> local, ret |-> taken.ret]
        ELSE IF local = <<>> THEN [queue |-> taken.queue, local |-> local, ret |-> None]
        ELSE [queue |-> taken.queue, local |-> Tail(local), ret |-> Some(Head(local))]

IsrPush(q, event, path) ==
    IF path = "handler" THEN cst816_irq_handler(q, event) ELSE push_from_isr(q, event)

\* the producer takes the lock for the next event
IsrLock ==
    /\ host.isr.pc = "idle"
    /\ host.lock = "free"
    /\ hist.raised < IRQ_QUEUE_DEPTH + MaxIsrOverflow
    /\ \E path \in {"handler", "bridge"} :
          host' = [host EXCEPT !.lock = "isr",
                               !.isr = [pc |-> "locked", path |-> path, event |-> hist.raised + 1]]
    /\ hist' = [hist EXCEPT !.raised = @ + 1]
    /\ UNCHANGED <<state, clock, ret, accepted, clears, queue>>

\* the producer pushes and releases the lock
IsrPushUnlock ==
    /\ host.isr.pc = "locked"
    /\ queue' = IsrPush(queue, host.isr.event, host.isr.path)
    /\ host' = [host EXCEPT !.lock = "free", !.isr = [pc |-> "idle", path |-> "", event |-> 0]]
    /\ ret' = [op |-> "push", event |-> host.isr.event, before |-> queue]
    /\ hist' = [hist EXCEPT !.lost = @ \cup (Range(queue) \ Range(queue'))]
    /\ UNCHANGED <<state, clock, accepted, clears>>

\* read_event takes the lock for its emptiness test
ReadLock ==
    /\ host.runtime.pc = "idle"
    /\ host.lock = "free"
    /\ host' = [host EXCEPT !.lock = "runtime", !.runtime.pc = "testing"]
    /\ UNCHANGED <<state, clock, ret, accepted, clears, queue, hist>>

\* the emptiness test, after which the lock is released
ReadTest ==
    /\ host.runtime.pc = "testing"
    /\ IF read_event_is_empty(queue, host.runtime.queue)
       THEN /\ host' = [host EXCEPT !.lock = "free", !.runtime.pc = "idle"]
            /\ ret' = [op |-> "read_event", value |-> None, before |-> queue]
       ELSE /\ host' = [host EXCEPT !.lock = "free", !.runtime.pc = "tested"]
            /\ UNCHANGED ret
    /\ UNCHANGED <<state, clock, accepted, clears, queue, hist>>

\* read_event takes the lock again for take_next
ReadRelock ==
    /\ host.runtime.pc = "tested"
    /\ host.lock = "free"
    /\ host' = [host EXCEPT !.lock = "runtime", !.runtime.pc = "taking"]
    /\ UNCHANGED <<state, clock, ret, accepted, clears, queue, hist>>

\* take_next, after which the lock is released and the event returned
ReadTake ==
    /\ host.runtime.pc = "taking"
    /\ LET r == read_event_take(queue, host.runtime.queue)
       IN  /\ queue' = r.queue
           /\ host' = [host EXCEPT !.lock = "free", !.runtime = [pc |-> "idle", queue |-> r.local]]
           /\ ret' = [op |-> "read_event", value |-> r.ret, before |-> queue]
           /\ hist' = [hist EXCEPT !.read = @ \o r.ret]
    /\ UNCHANGED <<state, clock, accepted, clears>>

InitIsr ==
    /\ state = RuntimeState_new
    /\ clock = 0
    /\ ret = [op |-> "new", value |-> None, before |-> <<>>]
    /\ accepted = NoHistory
    /\ clears = 0
    /\ host = [lock |-> "free",
               isr |-> [pc |-> "idle", path |-> "", event |-> 0],
               runtime |-> [pc |-> "idle", queue |-> <<>>]]
    /\ queue = <<>>
    /\ hist = [raised |-> 0, read |-> <<>>, lost |-> {}]

NextIsr == IsrLock \/ IsrPushUnlock \/ ReadLock \/ ReadTest \/ ReadRelock \/ ReadTake

\* the interrupt handler and read_event running side by side on the bridge
SpecIsr == InitIsr /\ [][NextIsr]_vars

(***************************************************************************)
(* A device loop stepped with its touch driver while the display is        *)
(* touched now and then: steps follow each other closely or after a pause  *)
(* of about TOUCH_EVENT_STALE_MS.  Every step records the events it was    *)
(* handed (those waiting in the pipeline and those its driver returns) and *)
(* the touch events it applied.                                            *)
(***************************************************************************)
IdleDrivers ==
    {None} \cup
    {Some([pending |-> pending, events |-> events]) :
        pending \in BOOLEAN,
        events \in {<<>>, <<TouchEventPayload(TouchTarget.x, TouchTarget.y, "Down", TRUE)>>,
                    <<TouchEventPayload(TouchTarget.x, TouchTarget.y, "Down", FALSE),
                      TouchEventPayload(TouchTarget.x, TouchTarget.y, "Move", TRUE)>>}}

\* the events on the display among those a sequence holds
on_display(events) == SelectSeq(events, LAMBDA e : is_some(clamp_and_validate_touch(e)))

IdleTouch(event) ==
    /\ hist.touched < MaxIdleTouches
    /\ host' = [host EXCEPT !.pipeline = push_event(@, event)]
    /\ ret' = [op |-> "push_event", now |-> clock, arrived |-> <<>>, applied |-> 0,
               last_touch_ms |-> host.loop.last_touch_ms]
    /\ hist' = [hist EXCEPT !.touched = @ + 1]
    /\ UNCHANGED <<state, clock, accepted, clears, queue>>

IdleStep(now, driver) ==
    /\ hist.steps < MaxIdleSteps
    /\ LET r == step_with_touch_driver(host.loop, state, host.pipeline, driver, <<>>, now,
                                       host.renderer)
           drained == IF is_some(driver) THEN drain_from_driver(host.pipeline, unwrap(driver))
                      ELSE [pipeline |-> host.pipeline, ret |-> 0]
       IN  /\ state' = r.state
           /\ host' = [loop |-> r.loop, pipeline |-> r.pipeline, renderer |-> r.renderer]
           /\ ret' = [op |-> "step", now |-> now, arrived |-> drained.pipeline.queue,
                      applied |-> Len(r.log.actions),
                      last_touch_ms |-> host.loop.last_touch_ms]
    /\ hist' = [touched |-> 0, steps |-> hist.steps + 1]
    /\ clock' = now
    /\ UNCHANGED <<accepted, clears, queue>>

InitIdle ==
    /\ state = RuntimeState_new
    /\ clock = 0
    /\ ret = [op |-> "new", now |-> 0, arrived |-> <<>>, applied |-> 0, last_touch_ms |-> None]
    /\ accepted = NoHistory
    /\ clears = 0
    /\ host = [loop |-> DeviceEventLoop_new(EventLoopConfig_default),
               pipeline |-> TouchPipeline_new, renderer |-> NullRenderer_new]
    /\ queue = <<>>
    /\ hist = [touched |-> 0, steps |-> 0]

NextIdle ==
    \/ \E event \in TouchInputs : IdleTouch(event)
    \/ \E now \in {clock + 1, clock + TOUCH_EVENT_STALE_MS, clock + TOUCH_EVENT_STALE_MS + 1},
          driver \in IdleDrivers : IdleStep(now, driver)

\* a device that is touched, left alone and touched again
SpecIdle == InitIdle /\ [][NextIdle]_vars

(***************************************************************************)
(* Properties                                                              *)
(***************************************************************************)
IsApply == ret.op = "apply_transport_message"
UiMessage(m) == IsApply /\ ret.value = RaiseUiState(m)
LastFrameAccepted == IsApply /\ ret.value.message \notin RejectMessages

\* C1: SafeMode is latched: once the mode is SafeMode, no inbound frame, no
\* heartbeat-staleness check and no safety check changes it to another mode.
C1_SafeModeLatched ==
    [][(/\ state.mode.tag = "SafeMode"
        /\ ret'.op \in {"apply_transport_message", "mark_offline_if_stale",
                        "safety_lockdown_check"})
       => state'.mode.tag = "SafeMode"]_vars

\* C2: every frame from an allowed source, not expired, whose seq <= last_seq
\* or whose message_id is in the seen-set is rejected with
\* replay_or_duplicate_rejected and the rejection leaves the whole device
\* state as it was; every accepted frame strictly increases last_seq.
C2_ReplayRejectedStateUnchanged ==
    \A msg \in Frames :
        LET r == apply_transport_message(state, msg, clock)
        IN  /\ (/\ is_host_allowed(state, msg.source)
                /\ ~is_expired(msg, clock)
                /\ (msg.seq <= state.last_seq
                    \/ msg.message_id \in DOMAIN state.seen_message_ids))
               => (r.ret = RaiseUiState("replay_or_duplicate_rejected") /\ r.state = state)
            /\ r.ret.message \notin RejectMessages => r.state.last_seq > state.last_seq

C2_Witness ==
    /\ UiMessage("replay_or_duplicate_rejected")
    /\ state.last_seq >= 1
    /\ \E msg \in Frames : msg.seq > state.last_seq
                           /\ msg.message_id \in DOMAIN state.seen_message_ids

\* C3 (as claimed): over a session no two accepted frames carry the same
\* message_id, however many frames were accepted in between.
C3_NoIdAcceptedTwice ==
    \A id \in DOMAIN accepted : Len(accepted[id]) <= 1

\* C3 (amended): two accepted frames carry the same message_id only if the
\* seen-set was cleared by overflow after the first and no later than the
\* second was recorded, and the seen-set is not cleared before the 514th
\* accepted frame of the session.
C3_NoIdAcceptedTwiceBetweenClears ==
    /\ \A id \in DOMAIN accepted :
          \A i, j \in DOMAIN accepted[id] : i # j => accepted[id][i] # accepted[id][j]
    /\ clears >= 1 => state.last_seq >= SEEN_IDS_LIMIT + 2

C3_Witness ==
    /\ LastFrameAccepted
    /\ \E id \in DOMAIN accepted : Len(accepted[id]) = 2

\* C4: emit_command and emit_snapshot_request leave last_seq and the seen-set
\* unchanged, and every inbound frame gets the same verdict and the same
\* returned action after an emission as without it.
C4_EmissionKeepsInboundGate ==
    \A e \in {emit_command(state, "status_get", clock).state,
              emit_snapshot_request(state, clock).state} :
        /\ e.last_seq = state.last_seq
        /\ e.seen_message_ids = state.seen_message_ids
        /\ \A msg \in Frames :
              /\ Accepts(e, msg, clock) <=> Accepts(state, msg, clock)
              /\ (msg.seq > state.last_seq
                  /\ msg.message_id \notin DOMAIN state.seen_message_ids
                  /\ is_host_allowed(state, msg.source)
                  /\ ~is_expired(msg, clock))
                 => /\ apply_transport_message(e, msg, clock).ret
                          \notin {RaiseUiState(m) : m \in RejectMessages}
                    /\ apply_transport_message(e, msg, clock).ret
                          = apply_transport_message(state, msg, clock).ret

C4_Witness ==
    /\ LastFrameAccepted
    /\ state.outbound_seq >= 1
    /\ state.last_seq >= 1

\* C5: mark_boot_failure raises boot_failure_count by exactly 1; if the new
\* count is >= boot_retry_limit the mode on return is
\* SafeMode(boot_failures_exceeded), otherwise it is Offline.
C5_BootFailureMode ==
    LET t == mark_boot_failure(state, clock, "boot_failed")
    IN  /\ t.boot_failure_count = state.boot_failure_count + 1
        /\ t.boot_failure_count >= t.boot_retry_limit
              => t.mode = SafeMode("boot_failures_exceeded")
        /\ t.boot_failure_count < t.boot_retry_limit => t.mode = Offline

C5_Witness ==
    /\ ret.op = "mark_boot_failure"
    /\ state.boot_failure_count = state.boot_retry_limit
    /\ state.mode = SafeMode("boot_failures_exceeded")

\* C6: a state constructed from storage is in
\* SafeMode(persisted_boot_failures_exceeded) iff the persisted
\* boot_failure_count is >= boot_retry_limit, and otherwise in Booting; its
\* boot_failure_count is the persisted value (0 when absent); so a device that
\* recorded boot_retry_limit failures restarts in SafeMode.
C6_ConstructedFromStorage ==
    is_some(state.storage) =>
        LET storage == unwrap(state.storage)
            persisted == IF BOOT_FAILURE_COUNT \in DOMAIN storage.u32s
                         THEN storage.u32s[BOOT_FAILURE_COUNT] ELSE 0
            t == with_storage(storage)
        IN  /\ t.boot_failure_count = persisted
            /\ persisted >= DEFAULT_BOOT_RETRY_LIMIT
                  => t.mode = SafeMode("persisted_boot_failures_exceeded")
            /\ persisted < DEFAULT_BOOT_RETRY_LIMIT => t.mode = Booting
            /\ state.boot_failure_count >= DEFAULT_BOOT_RETRY_LIMIT
                  => t.mode.tag = "SafeMode"

C6_Witness ==
    /\ ret.op = "restart"
    /\ state.boot_failure_count = DEFAULT_BOOT_RETRY_LIMIT
    /\ state.mode = SafeMode("persisted_boot_failures_exceeded")

\* C7: with storage, after mark_boot_failure, clear_boot_failure_count and an
\* accepted HelloAck the value stored under boot_failure_count equals the
\* in-memory boot_failure_count (and the two never differ).
C7_CountPersisted ==
    is_some(state.storage) =>
        LET stored == get_u32(unwrap(state.storage), BOOT_FAILURE_COUNT)
        IN  /\ (\/ ret.op \in {"mark_boot_failure", "clear_boot_failure_count"}
                \/ UiMessage("connected"))
               => stored = Some(state.boot_failure_count)
            /\ unwrap_or(stored, 0) = state.boot_failure_count

C7_Witness ==
    /\ is_some(state.storage)
    /\ ret.op = "mark_boot_failure"
    /\ state.boot_failure_count = 2
    /\ get_u32(unwrap(state.storage), BOOT_FAILURE_COUNT) = Some(2)

\* frames probed in every state of the long session: every body, at, next to
\* and beyond last_seq, with the first id, a seen id and fresh ids
ProbeFrames(s) ==
    {Frame(seq, "host", id, body, <<None, Some(0)>>) :
        seq \in {s.last_seq, s.last_seq + 1, s.last_seq + 2},
        id \in {1, s.last_seq, s.last_seq + 1, s.last_seq + 2},
        body \in Bodies}

\* C8: after every accepted call of apply_transport_message last_seq >= the
\* frame's seq and the frame's message_id is in the seen-set, also when the
\* insert triggers the overflow clear.
C8_AcceptedFrameRecorded ==
    \A msg \in ProbeFrames(state) :
        Accepts(state, msg, clock) =>
            LET t == apply_transport_message(state, msg, clock).state
            IN  /\ t.last_seq >= msg.seq
                /\ msg.message_id \in DOMAIN t.seen_message_ids

C8_Witness ==
    /\ LastFrameAccepted
    /\ clears = 1
    /\ Cardinality(DOMAIN state.seen_message_ids) = 1
    /\ state.last_seq \in DOMAIN state.seen_message_ids

\* C9: in every reachable state the seen-set holds at most 512 message ids.
C9_SeenSetAtMost512 ==
    Cardinality(DOMAIN state.seen_message_ids) <= SEEN_IDS_LIMIT

\* C10 (as claimed): a frame with ttl_ms and issued_at set and
\* now - issued_at > ttl_ms is rejected with message_expired_ttl and leaves
\* last_seq and the seen-set unchanged; a frame without ttl_ms or issued_at,
\* or with now - issued_at <= ttl_ms, is not rejected as expired.
C10_ExpiredFrameRejected ==
    \A msg \in Frames :
        LET r == apply_transport_message(state, msg, clock)
            timed == is_some(msg.ttl_ms) /\ is_some(msg.issued_at)
            late == timed /\ clock - unwrap(msg.issued_at) > unwrap(msg.ttl_ms)
        IN  /\ late => /\ r.ret = RaiseUiState("message_expired_ttl")
                       /\ r.state.last_seq = state.last_seq
                       /\ r.state.seen_message_ids = state.seen_message_ids
            /\ ~late => r.ret # RaiseUiState("message_expired_ttl")

\* C10 (amended): the same, for frames from an allowed source; a late frame
\* from any source leaves last_seq and the seen-set unchanged.
C10_ExpiredFrameFromAllowedSourceRejected ==
    \A msg \in Frames :
        LET r == apply_transport_message(state, msg, clock)
            timed == is_some(msg.ttl_ms) /\ is_some(msg.issued_at)
            late == timed /\ clock - unwrap(msg.issued_at) > unwrap(msg.ttl_ms)
        IN  /\ (late /\ is_host_allowed(state, msg.source))
                  => (r.ret = RaiseUiState("message_expired_ttl") /\ r.state = state)
            /\ late => /\ r.state.last_seq = state.last_seq
                       /\ r.state.seen_message_ids = state.seen_message_ids
            /\ ~late => r.ret # RaiseUiState("message_expired_ttl")

C10_Witness ==
    /\ UiMessage("message_expired_ttl")
    /\ state.last_seq >= 1
    /\ clock >= 1

\* C11: with a non-empty allowlist without the wildcard, a frame whose source
\* is not listed is rejected with command_denied_unauthorized_source, raises
\* safety_fail_count by exactly 1 and changes nothing else; with an empty
\* allowlist or one holding the wildcard no frame is rejected for its source.
C11_UnlistedSourceDenied ==
    \A msg \in Frames :
        LET r == apply_transport_message(state, msg, clock)
            hosts == state.host_allowlist
            listed == \E i \in DOMAIN hosts : hosts[i] = msg.source
            wildcard == \E i \in DOMAIN hosts : hosts[i] = "*"
        IN  /\ (hosts # <<>> /\ ~wildcard /\ ~listed)
                  => /\ r.ret = RaiseUiState("command_denied_unauthorized_source")
                     /\ r.state = [state EXCEPT !.safety_fail_count = @ + 1]
            /\ (hosts = <<>> \/ wildcard)
                  => r.ret # RaiseUiState("command_denied_unauthorized_source")

C11_Witness ==
    /\ UiMessage("command_denied_unauthorized_source")
    /\ state.safety_fail_count = 1
    /\ state.last_seq >= 1

\* C12: pending_reconciliation is false at construction, true after
\* emit_snapshot_request, false after an accepted StatusSnapshot, and left as
\* it was by every other frame (an accepted StatusDelta included), by every
\* rejected frame, by emit_command and by reclaim_stale_inflight.
C12_PendingReconciliation ==
    /\ ret.op = "new" => ~state.pending_reconciliation
    /\ emit_snapshot_request(state, clock).state.pending_reconciliation
    /\ emit_command(state, "status_get", clock).state.pending_reconciliation
          = state.pending_reconciliation
    /\ \A max_ms \in {1, 2} :
          reclaim_stale_inflight(state, clock, max_ms).state.pending_reconciliation
              = state.pending_reconciliation
    /\ \A msg \in Frames :
          apply_transport_message(state, msg, clock).state.pending_reconciliation
              = IF Accepts(state, msg, clock) /\ msg.kind = "StatusSnapshot"
                THEN FALSE ELSE state.pending_reconciliation

C12_Witness ==
    /\ UiMessage("status_updated")
    /\ state.pending_reconciliation
    /\ state.outbound_seq >= 1

\* C13: in every group the items are handed out in the order in which they
\* were put in: when an item is handed out (for the first time or again after
\* a retry), every item put into its group before it has been handed out
\* already; an operation on one group leaves the queue of every other group
\* as it was.
C13_FifoPerGroup ==
    /\ \A g \in Groups :
          LET d == hist.delivered[g]
          IN  \A j \in DOMAIN d : \A m \in 1..(d[j] - 1) : \E i \in 1..(j - 1) : d[i] = m
    /\ \A g \in Groups : \A h \in Groups \ {g} :
          /\ IsGroupQueue =>
                /\ group_entry(GroupQueue_push(queue, h, 0).per_group, g)
                      = group_entry(queue.per_group, g)
                /\ group_entry(GroupQueue_pop(queue, h).queue.per_group, g)
                      = group_entry(queue.per_group, g)
          /\ IsExecutionQueue =>
                /\ group_entry(enqueue(queue, h, "a", 0).per_group, g)
                      = group_entry(queue.per_group, g)
                /\ \A i \in DOMAIN queue.in_flight, ok \in BOOLEAN :
                      queue.in_flight[i].group = h
                      => group_entry(complete(queue, queue.in_flight[i], ok, clock).per_group, g)
                            = group_entry(queue.per_group, g)
                /\ \A order \in GroupOrders :
                      LET r == next_ready(queue, clock, order)
                      IN  (is_some(r.ret) /\ unwrap(r.ret).group = h)
                          => group_entry(r.queue.per_group, g)
                                = group_entry(queue.per_group, g)

C13_Witness ==
    /\ ret.op \in {"pop", "next_ready"}
    /\ is_some(ret.value)
    /\ \E g \in Groups :
          /\ Len(hist.delivered[g]) >= 2
          /\ hist.delivered[g][Len(hist.delivered[g])] = 2
          /\ \E h \in Groups \ {g} : hist.delivered[h] # <<>>

\* C14: at every observable point (after every host step, and inside the last
\* step after every next_ready and every complete) the number of items handed
\* out by next_ready and not yet completed is at most the configured
\* max_inflight, counted across all groups.
C14_InflightBounded ==
    /\ Len(host.queue.in_flight) <= host.config.max_inflight
    /\ hist.peak <= host.config.max_inflight

\* the last step handed out work up to the configured bound
C14_Witness ==
    /\ ret.op = "step"
    /\ ret.value >= 2
    /\ hist.peak >= 1
    /\ hist.peak = host.config.max_inflight

\* the items of q, queued or in flight, with the given group and id
instances(q, group, id) ==
    Cardinality({i \in DOMAIN group_entry(q.per_group, group) :
                    group_entry(q.per_group, group)[i].id = id})
    + Cardinality({i \in DOMAIN q.in_flight :
                    q.in_flight[i].group = group /\ q.in_flight[i].id = id})

item_keys(q) ==
    UNION {{<<g, q.per_group[g][i].id>> : i \in DOMAIN q.per_group[g]} : g \in DOMAIN q.per_group}
    \cup {<<q.in_flight[i].group, q.in_flight[i].id>> : i \in DOMAIN q.in_flight}

no_duplicates(q) == \A key \in item_keys(q) : instances(q, key[1], key[2]) <= 1

\* C15: for any (group, id) at most one instance of the item is in the
\* execution queue or in flight: between host steps, and inside a step after
\* the inbound frames were enqueued.
C15_NoDuplicateItems ==
    /\ no_duplicates(host.queue)
    /\ no_duplicates(process_inbound(host, clock).host.queue)

\* the work items of q, queued or in flight, that run the scheduled task id
task_items(q, id) ==
    UNION {{<<g, i>> : i \in {n \in DOMAIN q.per_group[g] :
                                /\ q.per_group[g][n].payload.work = "ScheduledTask"
                                /\ q.per_group[g][n].payload.task.id = id}} :
            g \in DOMAIN q.per_group}
    \cup {<<"in_flight", i>> : i \in {n \in DOMAIN q.in_flight :
                                /\ q.in_flight[n].payload.work = "ScheduledTask"
                                /\ q.in_flight[n].payload.task.id = id}}

\* an id is in inflight_task_ids exactly while its one work item is in the queue
inflight_consistent(h) ==
    \A id \in DOMAIN h.store.tasks :
        /\ Cardinality(task_items(h.queue, id)) <= 1
        /\ id \in h.inflight_task_ids <=> task_items(h.queue, id) # {}

\* going from before to after, the poll enqueued only active tasks whose id was
\* not in inflight_task_ids, and inserted the id of each
poll_guarded(before, after) ==
    \A id \in DOMAIN before.store.tasks :
        Cardinality(task_items(after.queue, id)) > Cardinality(task_items(before.queue, id))
        => /\ before.store.tasks[id].status = "active"
           /\ id \notin before.inflight_task_ids
           /\ id \in after.inflight_task_ids

\* C16: the scheduler poll enqueues a due task only if it is active and its id
\* is not in inflight_task_ids, and inserts the id; the id leaves the set only
\* when the work item succeeds or fails with its attempts exhausted; so there is
\* at most one queued or running work item per task id, however often the poll
\* runs, and an id is in the set exactly while its item is in the queue.
C16_OneItemPerTask ==
    /\ inflight_consistent(host)
    /\ \A env \in Envs :
          LET r == step(host, clock, env)
          IN  /\ poll_guarded(r.inbound, r.polled)
              /\ inflight_consistent(r.polled)
              /\ inflight_consistent(r.host)
              /\ \A i \in DOMAIN r.runs :
                    LET run == r.runs[i]
                    IN  run.item.payload.work = "ScheduledTask"
                        => (run.item.id \notin run.after.inflight_task_ids
                            <=> \/ run.ok
                                \/ run.item.attempts >= host.config.queue_retry_max_attempts)

\* a task failed once, waits for its retry and is still due at the next poll
C16_Witness ==
    /\ ret.op = "step"
    /\ <<"t1">> \in host.inflight_task_ids
    /\ host.status.work_retries >= 1
    /\ select_tasks(host.store.tasks, TaskIds, clock) # <<>>
    /\ clock >= host.last_scheduler_ms + host.config.scheduler_poll_interval_ms

\* the outbound frame answers the inbound frame or the scheduled task it names
\* as its cause with the right kind and corr_id
correlated(frame) ==
    IF frame.cause.kind = "ScheduledTask"
    THEN frame.kind = "CommandResult" /\ frame.corr_id = None
    ELSE /\ frame.corr_id = frame.cause.corr_id
         /\ frame.cause.kind = "Heartbeat" => frame.kind = "CommandResult"
         /\ frame.cause.kind \in {"Command", "HostCommand"}
               => frame.kind \in {"CommandResult", "Error"}

\* C17: every outbound frame the host emits in response to an inbound frame
\* carries exactly the corr_id of that inbound frame, also when the command
\* waited in the queue; every outbound frame for a scheduled task carries none.
C17_OutboundCorrelated ==
    \A i \in DOMAIN host.transport.outbound : correlated(host.transport.outbound[i])

\* a command that failed once was answered in a later step, next to the
\* result of a scheduled task
C17_Witness ==
    /\ host.status.work_retries >= 1
    /\ \E i \in DOMAIN host.transport.outbound :
          LET frame == host.transport.outbound[i]
          IN  /\ frame.kind = "CommandResult"
              /\ frame.cause.kind = "Command"
              /\ is_some(frame.corr_id)
    /\ \E i \in DOMAIN host.transport.outbound :
          host.transport.outbound[i].cause.kind = "ScheduledTask"

is_command(frame) ==
    frame.kind \in {"Command", "HostCommand"} /\ is_some(as_device_command(frame))

\* the action of the command is named by an entry of allowed_host_actions
in_allowed_host_actions(h, frame) ==
    \E i \in DOMAIN h.config.allowed_host_actions :
        parse_host_action(h.config.allowed_host_actions[i])
            = Some(unwrap(as_device_command(frame)).action)

\* the work items of h, queued or in flight, made from the inbound frame tag
enqueued_for(h, tag) ==
    UNION {{<<g, i>> : i \in {n \in DOMAIN h.queue.per_group[g] :
                                /\ h.queue.per_group[g][n].payload.work = "Command"
                                /\ h.queue.per_group[g][n].payload.cause.tag = tag}} :
            g \in DOMAIN h.queue.per_group}
    \cup {<<"in_flight", i>> : i \in {n \in DOMAIN h.queue.in_flight :
                                /\ h.queue.in_flight[n].payload.work = "Command"
                                /\ h.queue.in_flight[n].payload.cause.tag = tag}}

\* the Error frames in the outbound queue of h that answer the inbound frame tag
errors_for(h, tag) ==
    {i \in DOMAIN h.transport.outbound :
        /\ h.transport.outbound[i].kind = "Error"
        /\ h.transport.outbound[i].cause.kind # "ScheduledTask"
        /\ h.transport.outbound[i].cause.tag = tag}

\* after carries the denial of frame and nothing else of it
denied(after, frame) ==
    /\ enqueued_for(after, frame.cause.tag) = {}
    /\ Cardinality(errors_for(after, frame.cause.tag)) = 1
    /\ \A i \in errors_for(after, frame.cause.tag) :
          /\ after.transport.outbound[i].corr_id = frame.corr_id
          /\ after.transport.outbound[i].payload.fields.error.code = "command_denied"

\* no command that h has denied is queued, in flight or answered with a result
never_run(h) ==
    \A i \in DOMAIN h.transport.outbound :
        LET frame == h.transport.outbound[i]
        IN  frame.kind = "Error"
            => /\ enqueued_for(h, frame.cause.tag) = {}
               /\ \A j \in DOMAIN h.transport.outbound :
                     h.transport.outbound[j].cause.kind # "ScheduledTask"
                     /\ h.transport.outbound[j].cause.tag = frame.cause.tag
                     => j = i

\* the command policy as it applies to the pending inbound frames that `covered`
\* selects, when the host handles them at now
command_policy(h, now, covered(_)) ==
    LET pending == h.transport.inbound
        after == process_inbound(h, now).host
        commands == {i \in DOMAIN pending : is_command(pending[i]) /\ covered(pending[i])}
        refused == {i \in commands : ~in_allowed_host_actions(h, pending[i])}
    IN  h.config.allowed_host_actions # <<>>
        => /\ never_run(h)
           /\ \A i \in refused : denied(after, pending[i])
           /\ \A i \in commands \ refused :
                 /\ Cardinality(enqueued_for(after, pending[i].cause.tag)) = 1
                 /\ errors_for(after, pending[i].cause.tag) = {}
           /\ after.status.commands_rejected
                 = h.status.commands_rejected + Cardinality(refused)

\* C18 as stated: when allowed_host_actions is non-empty, every inbound command
\* whose action is not in it is never enqueued or run, gets exactly one Error
\* frame command_denied with its corr_id and counts once in commands_rejected;
\* every inbound command whose action is in the list is enqueued and gets no
\* Error frame.
C18_CommandPolicy ==
    command_policy(host, clock, LAMBDA frame : TRUE)

\* C18 for the commands that pass the source filter: when allowed_host_actions
\* is non-empty, an inbound command from an allowed source whose action is not
\* in it is never enqueued or run, gets exactly one Error frame command_denied
\* with its corr_id and counts once in commands_rejected; such a command whose
\* action is in the list is enqueued and gets no Error frame.
C18_CommandPolicyAfterSourceFilter ==
    command_policy(host, clock, LAMBDA frame : is_source_allowed(host, frame.source))

\* a host that filters sources has denied a command from an allowed source and
\* dropped a frame from another source
C18_Witness ==
    /\ ret.op = "step"
    /\ host.config.allowed_sources # <<>>
    /\ host.status.commands_rejected = 1
    /\ host.status.inbound_filtered = 1
    /\ \E i \in DOMAIN host.transport.outbound :
          /\ host.transport.outbound[i].kind = "Error"
          /\ is_some(host.transport.outbound[i].corr_id)

\* the outbound frames of h made for the inbound frame tag
answers_for(h, tag) ==
    {i \in DOMAIN h.transport.outbound :
        /\ h.transport.outbound[i].cause.kind # "ScheduledTask"
        /\ h.transport.outbound[i].cause.tag = tag}

\* C19: with a non-empty allowed_sources, the pending inbound frames whose
\* source is not in it are only counted: handling the inbound queue leaves the
\* host as if they had never arrived, but for inbound_filtered, which grows by
\* one per such frame, and the transport's count of polled frames; none of them
\* is enqueued or answered.  With an empty allowed_sources nothing is filtered.
C19_UnlistedSourceOnlyCounted ==
    LET pending == host.transport.inbound
        kept == SelectSeq(pending, LAMBDA frame :
                    \E i \in DOMAIN host.config.allowed_sources :
                        host.config.allowed_sources[i] = frame.source)
        dropped == Len(pending) - Len(kept)
        after == process_inbound(host, clock).host
        clean == process_inbound([host EXCEPT !.transport.inbound = kept], clock).host
    IN  IF host.config.allowed_sources = <<>>
        THEN after.status.inbound_filtered = host.status.inbound_filtered
        ELSE /\ after = [clean EXCEPT !.status.inbound_filtered = @ + dropped,
                                      !.transport.inbound_frames = @ + dropped]
             /\ \A i \in DOMAIN pending :
                   (\A j \in DOMAIN kept : kept[j] # pending[i])
                   => /\ enqueued_for(after, pending[i].cause.tag) = {}
                      /\ answers_for(after, pending[i].cause.tag) = {}

\* a step handled a frame from an unlisted source together with a listed one
C19_Witness ==
    /\ ret.op = "step"
    /\ host.config.allowed_sources # <<>>
    /\ host.status.inbound_filtered >= 1
    /\ host.status.inbound_frames > host.status.inbound_filtered
    /\ host.status.outbound_frames >= 1

\* C20: while now < backend_circuit_until a sandbox run fails fast with
\* 'sandbox backend circuit breaker active', whatever the backend would have
\* answered, and changes neither backend_failures nor backend_circuit_until;
\* otherwise a failure of the backend (the runner returns an error), the
\* streak-th in a row counting this one, sets
\* backend_circuit_until = now + min(30000, base_backoff * 2^min(streak, 12)),
\* and a success of the backend (the runner returns a result, whatever its exit
\* status) resets backend_failures and backend_circuit_until to 0.  A dry-run
\* host never calls the backend and never opens the circuit.
C20_CircuitBreaker ==
    \A backend \in {"ok", "nonzero", "err"} :
        LET r == run_in_sandbox(host, BreakerTask, clock, Env(TRUE, backend))
            streak == hist.streak + 1
            base_backoff == host.config.queue_retry_backoff_ms
        IN  IF host.config.dry_run
            THEN r.ok /\ r.host = host /\ host.backend_circuit_until = 0
            ELSE /\ host.backend_failures = hist.streak
                 /\ IF clock < host.backend_circuit_until
                    THEN /\ ~r.ok
                         /\ r.value = "sandbox backend circuit breaker active"
                         /\ r.host = host
                    ELSE IF backend = "err"
                    THEN /\ ~r.ok
                         /\ r.host.backend_failures = streak
                         /\ r.host.backend_circuit_until
                               = clock + Min(30000, base_backoff * Pow2(Min(streak, 12)))
                    ELSE /\ r.ok
                         /\ r.host.backend_failures = 0
                         /\ r.host.backend_circuit_until = 0

\* the thirteenth failure in a row has opened the circuit for the full 30 s
C20_Witness ==
    /\ ret.op = "run_in_sandbox"
    /\ ~ret.value.ok
    /\ host.backend_failures > 12
    /\ host.backend_circuit_until = clock + 30000
    /\ hist.successes >= 1

\* C30: on_up reports a direction exactly when a Down origin is recorded and
\* the Up position lies at least 40 px from it horizontally and at most 30 px
\* vertically; the direction is Right for dx > 0 and Left for dx < 0; after
\* on_up and after cancel no origin is recorded, so a following Up without a
\* new Down reports nothing.
C30_SwipeDirection ==
    /\ ret.op = "on_up" =>
        LET recorded == is_some(ret.origin)
            dx == ret.x - unwrap(ret.origin)[1]
            dy == ret.y - unwrap(ret.origin)[2]
            far == (dx >= 40 \/ dx <= 0 - 40) /\ dy <= 30 /\ dy >= 0 - 30
        IN  /\ is_some(ret.value) <=> recorded /\ far
            /\ is_some(ret.value) /\ dx > 0 => ret.value = Some(SwipeRight)
            /\ is_some(ret.value) /\ dx < 0 => ret.value = Some(SwipeLeft)
    /\ ret.op \in {"on_up", "cancel"} =>
        /\ hist.origin = None
        /\ \A x \in SwipeXs, y \in SwipeYs : on_up(host, x, y).ret = None

\* an Up exactly 40 px to the left of and 30 px below its Down is a swipe
C30_Witness ==
    /\ ret.op = "on_up"
    /\ ret.origin = Some(<<40, 0>>)
    /\ ret.x = 0
    /\ ret.y = 30
    /\ ret.value = Some(SwipeLeft)

\* C29: the touch pipeline never holds more than 32 events; a push onto a
\* pipeline that holds 32 removes the oldest event, appends the new one and
\* raises dropped_count by exactly 1; no operation lowers dropped_count.
C29_TouchQueueBounded ==
    /\ Len(host.queue) <= 32
    /\ host.dropped >= ret.before.dropped
    /\ ret.op = "push_event" /\ Len(ret.before.queue) = 32 =>
        /\ host.queue = Tail(ret.before.queue) \o <<ret.value>>
        /\ host.dropped = ret.before.dropped + 1
    /\ ret.op = "push_event" /\ Len(ret.before.queue) < 32 =>
        /\ host.queue = ret.before.queue \o <<ret.value>>
        /\ host.dropped = ret.before.dropped

\* a push onto a full pipeline that had already dropped an event
C29_Witness ==
    /\ ret.op = "push_event"
    /\ Len(ret.before.queue) = 32
    /\ ret.before.dropped = 1
    /\ host.dropped = 2

\* frames are the consecutive arrivals up to the newest
in_arrival_order(frames, newest) ==
    \A i \in DOMAIN frames : frames[i] = BusFrame(newest - Len(frames) + i)

\* C28: each queue of a transport of depth d >= 1 holds at most d frames; a
\* push onto a full queue removes the oldest frame, keeps the new one and
\* raises the matching drop counter by exactly 1, a push onto any other queue
\* drops nothing; the frames a queue holds and delivers are in arrival order.
C28_TransportQueuesBounded ==
    /\ Len(queue.inbound) <= queue.max_inbound
    /\ Len(queue.outbound) <= queue.max_outbound
    /\ in_arrival_order(queue.inbound, hist.arrived)
    /\ in_arrival_order(queue.outbound, hist.submitted)
    /\ ret.op = "push_inbound" =>
        LET full == Len(ret.before.inbound) = queue.max_inbound
        IN  /\ queue.inbound = (IF full THEN Tail(ret.before.inbound) ELSE ret.before.inbound)
                               \o <<ret.value>>
            /\ queue.stats.dropped_inbound =
                   ret.before.stats.dropped_inbound + (IF full THEN 1 ELSE 0)
            /\ queue.stats.dropped_outbound = ret.before.stats.dropped_outbound
    /\ ret.op = "send_frame" =>
        LET full == Len(ret.before.outbound) = queue.max_outbound
        IN  /\ queue.outbound = (IF full THEN Tail(ret.before.outbound) ELSE ret.before.outbound)
                                \o <<ret.value>>
            /\ queue.stats.dropped_outbound =
                   ret.before.stats.dropped_outbound + (IF full THEN 1 ELSE 0)
            /\ queue.stats.dropped_inbound = ret.before.stats.dropped_inbound
    /\ ret.op = "poll_frames" => ret.value = ret.before.inbound /\ queue.inbound = <<>>
    /\ ret.op = "drain_outbound" => ret.value = ret.before.outbound /\ queue.outbound = <<>>

\* a poll that delivers the two newest frames after the oldest was dropped
C28_Witness ==
    /\ ret.op = "poll_frames"
    /\ queue.max_inbound = 2
    /\ ret.value = <<BusFrame(2), BusFrame(3)>>
    /\ queue.stats.dropped_inbound = 1

CheckedStates(field) == {state} \cup (IF ret.op = "step" THEN {ret.log[field]} ELSE {})
Occurrences(seq, m) == Cardinality({i \in DOMAIN seq : seq[i] = m})

\* C24: mark_offline_if_stale(now, timeout) returns true, with the device
\* Offline, offline_since_ms = now and heartbeat_stale as the newest
\* diagnostic, exactly when the mode is not Offline and the last heartbeat is
\* more than timeout old; otherwise it returns false and changes nothing.  A
\* step of the loop reports offline_timeout once when its call returned true
\* and not at all when it returned false.
C24_OfflineWhenStale ==
    /\ \A s \in CheckedStates("before_offline"), timeout \in {0, 1, DEFAULT_OFFLINE_TIMEOUT_MS} :
        LET r == mark_offline_if_stale(s, clock, timeout)
            stale == /\ s.mode.tag # "Offline"
                     /\ is_some(s.last_heartbeat_ms)
                     /\ clock - unwrap(s.last_heartbeat_ms) > timeout
        IN  /\ r.ret <=> stale
            /\ stale =>
                /\ r.state.mode = Offline
                /\ r.state.offline_since_ms = Some(clock)
                /\ r.state.diagnostics[Len(r.state.diagnostics)] = "heartbeat_stale"
            /\ ~stale => r.state = s
    /\ ret.op = "step" =>
        /\ ret.log.offline =
             mark_offline_if_stale(ret.log.before_offline, ret.now,
                                   ret.before.loop.config.offline_timeout_ms).ret
        /\ Occurrences(ret.out.ui_messages, "offline_timeout")
             = (IF ret.log.offline THEN 1 ELSE 0)
        /\ ret.out.offline_entered = ret.log.offline

\* a step found the heartbeat of the connected device stale and reported it
C24_Witness ==
    /\ ret.op = "step"
    /\ ret.log.before_offline.mode = Connected
    /\ ret.log.offline
    /\ ret.out.ui_messages = <<"offline_timeout">>
    /\ state.mode = Offline
    /\ state.offline_since_ms = Some(clock)

lockdown_policy(reason) ==
    /\ \A s \in CheckedStates("before_lockdown") :
        LET r == safety_lockdown_check(s)
            exhausted == s.mode.tag # "SafeMode" /\ s.safety_fail_count >= s.safety_fail_limit
        IN  /\ r.ret <=> exhausted
            /\ exhausted => r.state.mode = SafeMode(reason)
            /\ ~exhausted => r.state.mode = s.mode
            /\ [r.state EXCEPT !.mode = s.mode] = s
    /\ state.safety_fail_limit = 5
    /\ ret.op = "step" =>
        /\ ret.log.lockdown = safety_lockdown_check(ret.log.before_lockdown).ret
        /\ Occurrences(ret.out.ui_messages, "safety_lockdown")
             = (IF ret.log.lockdown THEN 1 ELSE 0)
        /\ ret.out.in_safe_mode = ret.log.lockdown

\* C25 as stated: the lockdown enters SafeMode("safety_retries_exhausted").
C25_LockdownReasonAsStated == lockdown_policy("safety_retries_exhausted")

\* C25: safety_lockdown_check returns true, with the device in
\* SafeMode("safety_retries_exhausted_entering_safe_mode"), exactly when the
\* mode is not SafeMode and safety_fail_count has reached safety_fail_limit
\* (always 5); otherwise it returns false and leaves the mode as it is.  A
\* step of the loop reports safety_lockdown once when its call returned true
\* and not at all when it returned false.
C25_LockdownAtLimit == lockdown_policy("safety_retries_exhausted_entering_safe_mode")

\* a step counted the fifth frame of an unlisted source and locked the device
C25_Witness ==
    /\ ret.op = "step"
    /\ ret.log.before_lockdown.safety_fail_count = 5
    /\ ret.log.before_lockdown.mode.tag # "SafeMode"
    /\ ret.log.lockdown
    /\ state.mode.tag = "SafeMode"
    /\ Occurrences(ret.out.ui_messages, "safety_lockdown") = 1

\* what the actions of a step's frames and touch events add to its report
RECURSIVE action_messages(_)
action_messages(actions) ==
    IF actions = <<>> THEN <<>>
    ELSE LET a == Head(actions)
         IN  (CASE a.type = "None" -> <<>>
                [] a.type = "EmitCommand" -> <<"emit_command">>
                [] a.type \in {"EmitAck", "RaiseUiState"} -> <<a.message>>)
             \o action_messages(Tail(actions))

RECURSIVE action_commands(_)
action_commands(actions) ==
    IF actions = <<>> THEN <<>>
    ELSE (IF Head(actions).type = "EmitCommand"
          THEN <<[kind |-> "Command", action |-> Head(actions).action]>> ELSE <<>>)
         \o action_commands(Tail(actions))

When(cond, m) == IF cond THEN <<m>> ELSE <<>>

frame_summary(frame) ==
    IF frame.kind = "Command"
    THEN [kind |-> "Command", action |-> frame.payload.fields.action]
    ELSE [kind |-> frame.kind]

age_at(s, id, now) == now - s.in_flight[id].enqueued_at_ms

sent_in_step ==
    SubSeq(queue.outbound, Len(ret.before.transport.outbound) + 1, Len(queue.outbound))

\* C26: a step that finds the transport disconnected and leaves it connected
\* sends exactly one SnapshotRequest, leaves pending_reconciliation set and
\* reports transport_reconnect_success once; a step that finds the transport
\* connected, or leaves it disconnected, sends no SnapshotRequest and does not
\* report a reconnect.
C26_SnapshotRequestOnReconnect ==
    ret.op = "step" =>
        LET reconnected == ~is_connected(ret.before.transport) /\ is_connected(queue)
            requests == {i \in DOMAIN sent_in_step : sent_in_step[i].kind = "SnapshotRequest"}
        IN  /\ Cardinality(requests) = (IF reconnected THEN 1 ELSE 0)
            /\ Occurrences(ret.out.ui_messages, "transport_reconnect_success")
                    = (IF reconnected THEN 1 ELSE 0)
            /\ reconnected => state.pending_reconciliation
            /\ reconnected <=> ret.log.reconnected

\* a step sent a command and, having reconnected, one snapshot request
C26_Witness ==
    /\ ret.op = "step"
    /\ ~is_connected(ret.before.transport)
    /\ is_connected(queue)
    /\ [i \in DOMAIN sent_in_step |-> sent_in_step[i].kind] = <<"Command", "SnapshotRequest">>
    /\ state.pending_reconciliation

attempted_in_step == queue.reconnect_attempts > ret.before.transport.reconnect_attempts

Unlisted(msg) ==
    /\ state.host_allowlist # <<>>
    /\ \A i \in DOMAIN state.host_allowlist : state.host_allowlist[i] \notin {msg.source, "*"}
Late(msg) ==
    /\ is_some(msg.ttl_ms) /\ is_some(msg.issued_at)
    /\ clock - unwrap(msg.issued_at) > unwrap(msg.ttl_ms)
Replayed(msg) ==
    msg.seq <= state.last_seq \/ msg.message_id \in DOMAIN state.seen_message_ids

\* C31: apply_transport_message checks the source, then the TTL, then replay,
\* and reports the first check that fails: a frame of an unlisted source is
\* denied and counted whether or not it is late or replayed, a late frame of
\* an allowed source is reported expired whether or not it is replayed, a
\* replayed frame that passed both is reported as a replay, and a frame that
\* fails no check gets none of the three reports.
C31_FirstFailingCheckReported ==
    \A msg \in Frames :
        LET r == apply_transport_message(state, msg, clock)
        IN  /\ Unlisted(msg) =>
                /\ r.ret = RaiseUiState("command_denied_unauthorized_source")
                /\ r.state = [state EXCEPT !.safety_fail_count = @ + 1]
            /\ (~Unlisted(msg) /\ Late(msg)) =>
                /\ r.ret = RaiseUiState("message_expired_ttl")
                /\ r.state = state
            /\ (~Unlisted(msg) /\ ~Late(msg) /\ Replayed(msg)) =>
                /\ r.ret = RaiseUiState("replay_or_duplicate_rejected")
                /\ r.state = state
            /\ (~Unlisted(msg) /\ ~Late(msg) /\ ~Replayed(msg)) =>
                (r.ret.type = "RaiseUiState" => r.ret.message \notin RejectMessages)

\* a frame was denied in a state where frames fail all three checks at once
\* and frames of the allowed source fail the last two
C31_Witness ==
    /\ UiMessage("command_denied_unauthorized_source")
    /\ \E msg \in Frames : Unlisted(msg) /\ Late(msg) /\ Replayed(msg)
    /\ \E msg \in Frames : ~Unlisted(msg) /\ Late(msg) /\ Replayed(msg)

\* the next status frames of the host: a delta carrying nothing, a delta
\* carrying only a mode, known or not, and full snapshots
StatusProbes(s) ==
    {Frame(s.last_seq + 1, "host", s.last_seq + 1, <<kind, None, payload>>, <<None, Some(0)>>) :
        kind \in {"StatusSnapshot", "StatusDelta"},
        payload \in {JsonObject(<<>>), JsonObject([mode |-> "offline"]),
                     JsonObject([mode |-> "standby"]),
                     JsonObject([wifi_ok |-> TRUE]),
                     JsonObject([wifi_ok |-> TRUE, mode |-> "ready"]),
                     JsonObject([wifi_ok |-> FALSE, mode |-> "ready"])}}

\* the status with the fields of the payload written over it
merged_status(status, payload) ==
    [f \in DOMAIN status |->
        IF f \notin DOMAIN payload.fields THEN status[f]
        ELSE IF f \in {"wifi_ok", "host_reachable"} THEN payload.fields[f]
        ELSE Some(payload.fields[f])]

\* the tag of the mode a status asks for
mode_tag_of(status, tag) ==
    IF ~status.wifi_ok THEN "Offline"
    ELSE IF ~is_some(status.mode) THEN tag
    ELSE CASE unwrap(status.mode) \in {"ready", "paired", "connected"} -> "Connected"
           [] unwrap(status.mode) = "offline" -> "Offline"
           [] unwrap(status.mode) = "safe_mode" -> "SafeMode"
           [] unwrap(status.mode) = "error" -> "Error"
           [] unwrap(status.mode) = "boot" -> "Booting"
           [] OTHER -> tag

\* C32: an accepted StatusSnapshot or StatusDelta is merged into last_status,
\* the fields its payload does not carry keeping their values; the device
\* goes Offline with reason status_wifi_not_ok when the merged wifi_ok is
\* false, and otherwise takes the mode that the merged status.mode names, or
\* keeps its mode when status.mode is absent or unknown.
C32_StatusMerged ==
    \A msg \in StatusProbes(state) :
        LET r == apply_transport_message(state, msg, clock)
            merged == merged_status(state.last_status, msg.payload)
        IN  Accepts(state, msg, clock) =>
                /\ r.ret = RaiseUiState("status_updated")
                /\ r.state.last_status = merged
                /\ r.state.mode.tag = mode_tag_of(merged, state.mode.tag)
                /\ (~merged.wifi_ok /\ state.mode.tag # "Offline") =>
                        r.state.diagnostics[Len(r.state.diagnostics)] = "status_wifi_not_ok"

\* the ledger without the entry of a corr_id
without(ledger, c) == [k \in (DOMAIN ledger) \ {c} |-> ledger[k]]

\* C33: emit_command adds exactly one in-flight entry, under a corr_id that
\* no earlier command of the session was issued under (snapshot requests
\* emitted in between included) and leaves the other entries as they are; an
\* accepted CommandAck or CommandResult carrying corr_id c removes the entry
\* of c and no other, and leaves the ledger as it is when c is not in flight.
C33_OneEntryPerCorrId ==
    /\ \A i, j \in DOMAIN hist.issued : i # j => hist.issued[i] # hist.issued[j]
    /\ DOMAIN state.in_flight \subseteq Range(hist.issued)
    /\ LET r == emit_command(state, "status_get", clock)
           c == unwrap(r.ret.corr_id)
       IN  /\ c \notin Range(hist.issued)
           /\ c \notin DOMAIN state.in_flight
           /\ DOMAIN r.state.in_flight = DOMAIN state.in_flight \cup {c}
           /\ without(r.state.in_flight, c) = state.in_flight
           /\ r.state.in_flight[c].corr_id = c
    /\ \A msg \in LedgerReplies(state) :
        LET r == apply_transport_message(state, msg, clock)
        IN  Accepts(state, msg, clock) =>
                IF is_some(msg.corr_id)
                THEN r.state.in_flight = without(state.in_flight, unwrap(msg.corr_id))
                ELSE r.state.in_flight = state.in_flight

\* three commands were issued with a snapshot request in between, the second
\* one was acknowledged and the other two are still in flight
C33_Witness ==
    /\ Len(hist.issued) = 3
    /\ state.outbound_seq = 4
    /\ hist.issued[2] \notin DOMAIN state.in_flight
    /\ {hist.issued[1], hist.issued[3]} \subseteq DOMAIN state.in_flight
    /\ ret.op = "apply_transport_message"
    /\ ret.value.type = "EmitAck"

\* the ids of the items a queue holds, waiting or in flight
held(q) ==
    UNION {{q.per_group[g][i].id : i \in DOMAIN q.per_group[g]} : g \in DOMAIN q.per_group}
        \cup {q.in_flight[i].id : i \in DOMAIN q.in_flight}

\* C34: complete(item, ok, now) discards the item on ok; on a failure with
\* attempts < max_attempts it puts the item back at the front of its group
\* with one attempt more and next_visible_at = now + base_ms * 2^min(attempts,
\* 12), and on a failure with attempts >= max_attempts it drops the item;
\* next_ready hands out the front item of a group only, and not before its
\* next_visible_at; an item the queue holds no more is never held again.
C34_CompletionRetriesWithBackoff ==
    IsExecutionQueue =>
        /\ \A i \in DOMAIN queue.in_flight, ok \in BOOLEAN :
            LET item == queue.in_flight[i]
                q == complete(queue, item, ok, clock)
                waiting == group_entry(queue.per_group, item.group)
                retry == ~ok /\ item.attempts < queue.policy.max_attempts
            IN  /\ Len(q.in_flight) = Len(queue.in_flight) - 1
                /\ \A g \in DOMAIN queue.per_group \ {item.group} :
                        q.per_group[g] = queue.per_group[g]
                /\ retry =>
                    /\ q.per_group[item.group] =
                        <<[item EXCEPT
                            !.attempts = item.attempts + 1,
                            !.next_visible_at_ms =
                                clock + queue.policy.base_ms * Pow2(Min(item.attempts, 12))]>>
                          \o waiting
                    /\ held(q) = held(queue)
                /\ ~retry =>
                    /\ group_entry(q.per_group, item.group) = waiting
                    /\ held(q) = held(queue) \ {item.id}
        /\ \A order \in GroupOrders :
            LET r == next_ready(queue, clock, order)
            IN  /\ held(r.queue) = held(queue)
                /\ is_some(r.ret) =>
                    /\ unwrap(r.ret) = Head(queue.per_group[unwrap(r.ret).group])
                    /\ unwrap(r.ret).next_visible_at_ms <= clock
        /\ \A g \in Groups :
            held(enqueue(queue, g, <<g, hist.put[g] + 1>>, hist.put[g] + 1))
                = held(queue) \cup {<<g, hist.put[g] + 1>>}
        /\ \A g \in Groups : \A i \in DOMAIN hist.delivered[g] :
            Cardinality({j \in DOMAIN hist.delivered[g] :
                            hist.delivered[g][j] = hist.delivered[g][i]})
                <= queue.policy.max_attempts + 1

\* an item that failed twice waits at the front of its group for a time that
\* has not come, ahead of a later item that is visible, and nothing is ready
C34_Witness ==
    /\ IsExecutionQueue
    /\ ret.op = "complete" /\ ~ret.value
    /\ \E g \in DOMAIN queue.per_group :
        /\ Len(queue.per_group[g]) >= 2
        /\ Head(queue.per_group[g]).attempts = 2
        /\ Head(queue.per_group[g]).next_visible_at_ms = clock + 2
        /\ queue.per_group[g][2].next_visible_at_ms <= clock
        /\ ready_groups(queue, clock) = {}

\* C35: two steps that poll the scheduler one after the other, with no poll
\* in between, are at least scheduler_poll_interval_ms apart, whatever the
\* times of the steps, a first step at 0 included.
C35_SchedulerPollsRateLimited ==
    \A i \in 1..(Len(hist.polls) - 1) :
        hist.polls[i + 1] - hist.polls[i] >= host.config.scheduler_poll_interval_ms

\* what a step of the host may do to its link
recovery_in_order ==
    /\ ret.op = "step" /\ ret.attempted =>
            ~ret.before.connected /\ ret.now >= ret.before.retry_at
    /\ ret.op = "step" /\ ret.before.connected => host.transport.connected
    /\ \A i \in 1..(Len(hist.attempts) - 1) :
            hist.attempts[i + 1] - hist.attempts[i]
                >= host.config.transport_reconnect_backoff_ms

\* C36: while the transport of the host is disconnected a step attempts the
\* recovery only at or after the scheduled retry time, two attempts one after
\* the other are at least the reconnect backoff apart, a step never
\* disconnects a connected transport, and with the host stepped again and
\* again a disconnected transport is connected again in the end.
C36_HostTransportRecovers ==
    /\ []recovery_in_order
    /\ (~host.transport.connected) ~> host.transport.connected

\* the link is up again after two attempts, with a step before the retry
\* time that made none
C36_Witness ==
    /\ ret.op = "step" /\ ret.attempted
    /\ ~ret.before.connected
    /\ host.transport.connected
    /\ Len(hist.attempts) = 2
    /\ hist.skipped >= 1
    /\ host.config.transport_reconnect_backoff_ms = 300

\* the events the handler has pushed so far
pushed_events == 1..(hist.raised - (IF host.isr.pc = "locked" THEN 1 ELSE 0))

\* C37: however the interrupt handler's pushes and the runtime's reads
\* interleave, the bridge never holds more than 64 events, a push onto a full
\* bridge loses the oldest event and no other, and the runtime reads the
\* events that were not lost in the order they were pushed, each at most once.
C37_IsrQueueBoundedOrdered ==
    /\ Len(queue) <= IRQ_QUEUE_DEPTH
    /\ host.lock = "free" <=> (host.isr.pc = "idle" /\ host.runtime.pc \in {"idle", "tested"})
    /\ ret.op = "push" =>
          /\ Range(ret.before) \ Range(queue) =
                IF Len(ret.before) >= IRQ_QUEUE_DEPTH THEN {Head(ret.before)} ELSE {}
          /\ ret.event \notin hist.lost
    /\ \A i, j \in DOMAIN hist.read : i < j => hist.read[i] < hist.read[j]
    /\ \A i, j \in DOMAIN queue : i < j => queue[i] < queue[j]
    /\ \A i \in DOMAIN hist.read, j \in DOMAIN queue : hist.read[i] < queue[j]
    /\ Range(hist.read) \cup Range(queue) \cup hist.lost = pushed_events
    /\ Range(hist.read) \cap hist.lost = {}
    /\ Range(queue) \cap hist.lost = {}

C37_Witness ==
    /\ ret.op = "read_event"
    /\ ret.value # None
    /\ Len(ret.before) = IRQ_QUEUE_DEPTH
    /\ hist.lost # {}
    /\ Len(hist.read) >= 2
    /\ \E i \in DOMAIN hist.read : i > 1 /\ hist.read[i] > hist.read[i - 1] + 1

\* C38: every touch event that arrived for a step (waiting in the pipeline or
\* returned by the driver) and that lies on the display is applied to the
\* state machine in that step, also when the touch before it was more than
\* TOUCH_EVENT_STALE_MS ago.
C38_ArrivedTouchesApplied ==
    ret.op = "step" => ret.applied = Len(on_display(ret.arrived))

\* the events of a step survive whenever the purge of that step does not fire
C38_AppliedUnlessPurged ==
    (/\ ret.op = "step"
     /\ \/ ~is_some(ret.last_touch_ms)
        \/ saturating_sub(ret.now, unwrap(ret.last_touch_ms)) <= TOUCH_EVENT_STALE_MS)
        => ret.applied = Len(on_display(ret.arrived))

\* a step after a pause that was handed a touch on the display and applied none
C38_FreshTouchPurged ==
    /\ ret.op = "step"
    /\ is_some(ret.last_touch_ms)
    /\ ret.now - unwrap(ret.last_touch_ms) > TOUCH_EVENT_STALE_MS
    /\ on_display(ret.arrived) # <<>>
    /\ ret.applied = 0

RECURSIVE executions_left(_, _)
\* the executions that the items of a sequence may still get under a limit of
\* max_attempts retries each
executions_left(items, max_attempts) ==
    IF items = <<>> THEN 0
    ELSE (max_attempts + 1 - Head(items).attempts) + executions_left(Tail(items), max_attempts)

RECURSIVE executions_left_in(_, _, _)
executions_left_in(per_group, groups, max_attempts) ==
    IF groups = {} THEN 0
    ELSE LET g == CHOOSE x \in groups : TRUE
         IN  executions_left(per_group[g], max_attempts)
                + executions_left_in(per_group, groups \ {g}, max_attempts)

\* the variant of the drain loop: the executions left to the items the queue of
\* a host holds, waiting or in flight, under the retry limit of its configuration
work_left(h) ==
    executions_left_in(h.queue.per_group, DOMAIN h.queue.per_group,
                       h.config.queue_retry_max_attempts)
        + executions_left(h.queue.in_flight, h.config.queue_retry_max_attempts)

\* a drain that ran no more items than were left, each run using up at least
\* one execution, and that stopped only when no item was ready
drain_terminated(r, now, env) ==
    /\ Len(r.runs) <= work_left(r.polled)
    /\ \A i \in DOMAIN r.runs :
          /\ work_left(r.runs[i].after) < work_left(r.runs[i].before)
          /\ work_left(r.runs[i].after) >= 0
    /\ ~is_some(next_ready(r.host.queue, now, env.order).ret)

\* C39: the drain loop of a host step ends for every queue and configuration,
\* a retry backoff of 0 ms and an always failing backend included: every
\* execution uses up one of the finitely many executions left to the queued
\* items, so a step runs finitely many items and returns its report.
C39_DrainTerminates ==
    \A env \in Envs : drain_terminated(step(host, clock, env), clock, env)

C39_Witness ==
    /\ ret.op = "step"
    /\ ret.value = 2
    /\ hist.injected = 0
    /\ host.status.ticks = 1
    /\ host.status.work_failed = 2
    /\ host.status.work_retries = 1
    /\ host.config.queue_retry_backoff_ms = 0
    /\ host.queue.per_group["g1"] = <<>>

\* the number of items with an id that the queue of a host holds, waiting or
\* in flight (ids of commands may repeat)
copies(h, id) ==
    LET with_id(items) == Cardinality({i \in DOMAIN items : items[i].id = id})
        groups == DOMAIN h.queue.per_group
    IN  with_id(h.queue.in_flight)
            + Cardinality({<<g, i>> \in UNION {{g} \X DOMAIN h.queue.per_group[g] : g \in groups} :
                              h.queue.per_group[g][i].id = id})

\* a failed run is followed by a retry when the item is back in the queue:
\* before is the host holding the item in flight, after the host that has
\* completed it
retried(run) ==
    /\ ~run.ok
    /\ copies(run.after, run.item.id) = copies(run.before, run.item.id)
    /\ Head(run.after.queue.per_group[run.item.group]).attempts = run.item.attempts + 1

\* the item of a run is gone from the queue after it
dropped(run) == copies(run.after, run.item.id) = copies(run.before, run.item.id) - 1

\* the bookkeeping of one run of the drain loop: a failed item that is not
\* retried is gone from the queue and from inflight_task_ids, and work_retries
\* grows by one exactly when the run is followed by a retry
run_accounted(run) ==
    /\ retried(run) \/ dropped(run)
    /\ (~run.ok /\ ~retried(run)) => run.item.id \notin run.after.inflight_task_ids
    /\ run.after.status.work_retries =
          run.before.status.work_retries + (IF retried(run) THEN 1 ELSE 0)
    /\ retried(run) <=> (~run.ok /\ run.item.attempts < run.before.config.queue_retry_max_attempts)

\* first: the executions an item may get besides queue_retry_max_attempts
runs_bounded(r, first) ==
    \A i \in DOMAIN r.runs :
        /\ r.runs[i].item.attempts + 1 <= r.runs[i].before.config.queue_retry_max_attempts + first
        /\ run_accounted(r.runs[i])

\* C40: an item that fails on every execution is executed at most
\* queue_retry_max_attempts times; after its last execution it is gone from
\* the queue and, for a scheduled task, from inflight_task_ids in the same
\* step, and work_retries counts exactly the executions followed by a retry.
C40_AtMostMaxAttemptsExecutions ==
    \A env \in Envs :
        runs_bounded(step(host, clock, env), 0)

\* the same with one first execution besides the queue_retry_max_attempts retries
C40_AtMostMaxAttemptsRetries ==
    \A env \in Envs :
        runs_bounded(step(host, clock, env), 1)

\* a scheduled task that has just failed for the second time under a limit of 1
C40_SecondExecution ==
    /\ ret.op = "step"
    /\ ret.value = 2
    /\ hist.injected = 0
    /\ host.status.ticks = 1
    /\ host.status.work_failed = 2
    /\ host.config.queue_retry_max_attempts = 1
    /\ host.status.work_retries = 1
    /\ host.inflight_task_ids = {}

====
